---- MODULE Spec2Model ----
(***************************************************************************)
(* A model of the zaino indexer core:                                      *)
(*   - JsonRpcConnector::send_request (zingo-rpc/src/jsonrpc/connector.rs) *)
(*     with its shared AtomicI32 id counter and its backpressure retry,    *)
(*   - test_node_connection / test_node_and_return_uri (same file),        *)
(*   - Indexer::new / serve / shutdown (zainod/src/indexer.rs).            *)
(***************************************************************************)
EXTENDS Integers, Sequences, FiniteSets, TLC

(***************************************************************************)
(* Bounds of the model.                                                    *)
(***************************************************************************)
\* number of send_request calls followed in one behaviour
MaxCalls == 3
\* number of connections and mix-network messages that arrive in one behaviour
MaxInbound == 3
\* capacity of the request queue (IndexerConfig max_queue_size)
max_queue_size == 2

(***************************************************************************)
(* Program constants.                                                      *)
(***************************************************************************)
\* largest value of an i32 (id_counter: AtomicI32)
I32Max == 2147483647
\* let max_attempts = 5;
max_attempts == 5
\* for _ in 0..3
ProbeRounds == 3

I32Min == (-I32Max) - 1

\* concurrent callers of one shared JsonRpcConnector
Callers == {1, 2}

None == "None"

\* a cell that does not exist yet / a cell or Option holding x / the value held
Absent == <<>>
Some(x) == <<x>>
Value(cell) == cell[1]

(***************************************************************************)
(* JSON-RPC client: requests, node responses, results.                     *)
(***************************************************************************)
\* (method, params) pairs handed to send_request; the last one stands for a
\* params value whose Serialize implementation fails
Inputs ==
    { [method |-> "getinfo", params |-> "()"],
      [method |-> "getblock", params |-> "[h,1]"],
      [method |-> "custom", params |-> "unserializable"] }

\* struct RpcRequest<T>
RpcRequest(method, params, id) ==
    [jsonrpc |-> "2.0", method |-> method, params |-> params, id |-> id]

\* What the node can answer to one HTTP request.  kind "connect_error": the
\* client.request future fails; "body_error": reading the body fails; "body":
\* a complete body, described by what the code inspects of it:
\*   sentinel - the body text contains "Work queue depth exceeded"
\*   json     - "ok":  decodes as RpcResponse<R> with no error field
\*              "err": decodes as RpcResponse<R> with an error field
\*              "bad": does not decode as RpcResponse<R>
\*   result   - the result member of a decodable body
Responses ==
    { [kind |-> "connect_error", sentinel |-> FALSE, json |-> "bad", result |-> "null"],
      [kind |-> "body_error", sentinel |-> FALSE, json |-> "bad", result |-> "null"] }
    \cup
    { [kind |-> "body", sentinel |-> s, json |-> "ok", result |-> r] :
        s \in BOOLEAN, r \in {"r1", "r2"} }
    \cup
    { [kind |-> "body", sentinel |-> s, json |-> j, result |-> "null"] :
        s \in BOOLEAN, j \in {"err", "bad"} }

NoResponse == [kind |-> None, sentinel |-> FALSE, json |-> "bad", result |-> "null"]

\* Result<R, JsonRpcConnectorError>
Ok(v) == [tag |-> "Ok", error |-> None, value |-> v]
Err(kind, msg) == [tag |-> "Err", error |-> kind, value |-> msg]
NoResult == [tag |-> None, error |-> None, value |-> None]

\* JsonRpcConnectorError::to_grpc_status: the code of the tonic::Status
ToGrpcStatus(err) ==
    CASE err.error = "SerdeJsonError" -> "invalid_argument"
      [] err.error = "HyperError" -> "unavailable"
      [] err.error = "HttpError" -> "internal"
      [] OTHER -> "internal"

\* JsonRpcConnectorError::new(msg)
CustomError(msg) == Err("CustomError", msg)

BackpressureMsg == "Work queue depth exceeded after multiple attempts"

\* AtomicI32::fetch_add(1, SeqCst): the new value of the cell; two's
\* complement wrap-around on overflow
FetchAddLoadOnly(v) == v
FetchAddSaturating(v) == IF v = I32Max THEN I32Max ELSE v + 1
FetchAdd(v) == IF v = I32Max THEN I32Min ELSE v + 1

\* serde_json::to_string(&req)
SerializeRequest(req) ==
    IF req.params = "unserializable" THEN Err("SerdeJsonError", "request") ELSE Ok(req)

\* serde_json::from_slice::<RpcResponse<R>>(&body_bytes) followed by the match
\* on response.error
DecodeResponseSwapped(resp) ==
    CASE resp.json = "bad" -> Err("SerdeJsonError", "response")
      [] resp.json = "err" -> Ok(resp.result)
      [] OTHER -> CustomError("RPC Error")
DecodeResponse(resp) ==
    CASE resp.json = "bad" -> Err("SerdeJsonError", "response")
      [] resp.json = "err" -> CustomError("RPC Error")
      [] OTHER -> Ok(resp.result)

\* The part of the loop body of send_request that follows the HTTP request:
\* what the call does with the node's answer, given the value of `attempts`.
\* [retry |-> TRUE] is `sleep; continue`, otherwise `result` is returned.
Retry == [retry |-> TRUE, result |-> NoResult]
Return(r) == [retry |-> FALSE, result |-> r]

HandleResponseFallsThrough(n, resp) ==
    CASE resp.kind \in {"connect_error", "body_error"} ->
            Return(Err("HyperError", resp.kind))
      [] resp.sentinel /\ n < max_attempts -> Retry
      [] OTHER -> Return(DecodeResponse(resp))
HandleResponseOffByOne(n, resp) ==
    CASE resp.kind \in {"connect_error", "body_error"} ->
            Return(Err("HyperError", resp.kind))
      [] resp.sentinel ->
            IF n > max_attempts THEN Return(CustomError(BackpressureMsg)) ELSE Retry
      [] OTHER -> Return(DecodeResponse(resp))
HandleResponseRetryAll(n, resp) ==
    CASE resp.kind \in {"connect_error", "body_error"} ->
            IF n >= max_attempts THEN Return(Err("HyperError", resp.kind)) ELSE Retry
      [] resp.sentinel ->
            IF n >= max_attempts THEN Return(CustomError(BackpressureMsg)) ELSE Retry
      [] OTHER -> Return(DecodeResponse(resp))
HandleResponse(n, resp) ==
    CASE resp.kind \in {"connect_error", "body_error"} ->
            Return(Err("HyperError", resp.kind))
      [] resp.sentinel ->
            IF n >= max_attempts THEN Return(CustomError(BackpressureMsg)) ELSE Retry
      [] OTHER -> Return(DecodeResponse(resp))

VARIABLES
    \* ---- JsonRpcConnector and its callers ----
    id_counter,   \* JsonRpcConnector.id_counter
    prior,        \* number of send_request calls made before the followed ones
    issued,       \* ids handed out by fetch_add, in the order they were taken
    pc,           \* pc[c]: where caller c is in send_request
    req,          \* req[c]: the RpcRequest built by the call
    attempts,     \* attempts[c]: the local `attempts`
    sent,         \* sent[c]: the requests the call has issued over HTTP
    hist,         \* hist[c]: per response received, whether it held the sentinel
    last,         \* last[c]: the last response received by the call
    result        \* result[c]: the value the call returned

connVars == <<id_counter, prior, issued, pc, req, attempts, sent, hist, last, result>>

VARIABLES
    \* ---- the node, as seen by the probe ----
    node4,          \* behaviour of the node on 127.0.0.1
    node6,          \* behaviour of the node on [::1]
    \* ---- Indexer::new and the probe it awaits ----
    zebrad_port,    \* config.zebrad_port
    ipc,            \* where the caller of Indexer::new / the constructed Indexer is
    check_result,   \* what config.check_config() returned
    round,          \* completed iterations of `for _ in 0..3`
    attempts4,      \* test_node_connection calls made with ipv4_uri
    attempts6,      \* test_node_connection calls made with ipv6_uri
    last4,          \* Result of the last IPv4 attempt
    last6,          \* Result of the last IPv6 attempt
    zebrad_uri,     \* the Uri test_node_and_return_uri returned
    new_result,     \* what Indexer::new returned: "Ok", an error, or nothing yet
    exit_code,      \* the status process::exit was called with
    \* ---- Indexer ----
    indexer_status, \* status.indexer_status (AtomicStatus)
    server_status,  \* the values stored into status.server_status.server_status
    server,         \* Indexer.server: Option<Server>
    online,         \* Indexer.online: Arc<AtomicBool>
    \* ---- tasks ----
    tpc,            \* where the task spawned by Indexer::serve is
    server_task,    \* the task behind server_handle
    serve_result    \* what the Indexer::serve task returned

idxVars == <<node4, node6, zebrad_port, ipc, check_result, round, attempts4, attempts6,
             last4, last6, zebrad_uri, new_result, exit_code, indexer_status,
             server_status, server, online, tpc, server_task, serve_result>>

probeVars == <<round, attempts4, attempts6, last4, last6, zebrad_uri>>

VARIABLES
    \* ---- the Ctrl-C handler registered by set_ctrlc ----
    hpc             \* "none": not registered, "armed", "stored": online cleared,
                    \* "exited": process::exit(0) called

sigVars == <<hpc>>

VARIABLES
    \* ---- ingestors, request queue, ProxyServer ----
    ing_pc,         \* per ingestor: "spawned", "loop" (serve task), "returned"
    ing_status,     \* per ingestor: its IngestorStatus
    ing_result,     \* per ingestor: what the serve task returned
    last_in,        \* per ingestor: the last inbound event it handled
    inbound,        \* number of connections / messages that arrived so far
    queue,          \* requests in the queue, oldest first
    queue_open,     \* FALSE once the receiving side of the queue is gone
    ppc,            \* ProxyServer: "none", "new", "check", "serving", "returned"
    client_flag,    \* the online cell held by the ProxyClient
    proxy_result,   \* what the ProxyServer::serve task returned
    enqueued,       \* the requests try_send accepted so far, in that order
    received        \* the requests the workers received so far, in that order

srvVars == <<ing_pc, ing_status, ing_result, last_in, inbound, queue, queue_open,
             ppc, client_flag, proxy_result, enqueued, received>>

VARIABLES
    \* ---- FullBlock::parse_from_slice ----
    blk_src,        \* the header the input was serialized from, if any
    blk_data,       \* data: the bytes to parse
    blk_txid,       \* txid: Option<Vec<u8>>
    bpc,            \* position in parse_from_slice
    blk_cursor,     \* cursor.position()
    blk_hdr,        \* block_header_data
    blk_txs,        \* transactions
    blk_rem,        \* remaining_data
    blk_num,        \* height_num read from the coinbase script
    blk_height,     \* block_height
    blk_out         \* what parse_from_slice returned

parVars == <<blk_src, blk_data, blk_txid, bpc, blk_cursor, blk_hdr, blk_txs, blk_rem,
             blk_num, blk_height, blk_out>>

VARIABLES
    \* ---- credentials and the HTTP requests made with them ----
    node_user,      \* config.node_user / JsonRpcConnector.user: Option<String>
    node_password,  \* config.node_password / JsonRpcConnector.password
    wire            \* the last HTTP request handed to the client, if any

vars == <<connVars, idxVars, sigVars, srvVars, parVars, node_user, node_password, wire>>

\* what the steps of the JSON-RPC client / of the indexer / of the ingestors
\* and the ProxyServer leave alone
notConn == <<idxVars, sigVars, srvVars, parVars, node_user, node_password, wire>>
notIdx == <<connVars, sigVars, srvVars, parVars, node_user, node_password, wire>>
notSrv == <<connVars, idxVars, sigVars, parVars, node_user, node_password, wire>>
notPar == <<connVars, idxVars, sigVars, srvVars, node_user, node_password, wire>>

\* base64::encode(format!("{}:{}", user, password)) behind "Basic "
BasicAuth(user, password) == <<"Basic", "base64", user, ":", password>>

\* send_request, lines 146-154: the headers of the request
RequestHeaders(user, password) ==
    [by |-> "send_request",
     content_type |-> "application/json",
     authorization |-> IF user # Absent /\ password # Absent
                         THEN Some(BasicAuth(Value(user), Value(password)))
                         ELSE Absent]

\* test_node_connection, lines 432-440: the headers of the request
ProbeHeaders(user, password) ==
    LET u == IF user = Absent THEN "xxxxxx" ELSE Value(user)
        pw == IF password = Absent THEN "xxxxxx" ELSE Value(password)
    IN  [by |-> "test_node_connection",
         content_type |-> "application/json",
         authorization |-> Some(BasicAuth(u, pw))]

\* the credentials of the configuration; no request made yet
AuthInitWith(user, password) ==
    /\ node_user = user
    /\ node_password = password
    /\ wire = Absent

NoReq == RpcRequest(None, None, 0)

\* JsonRpcConnector::new (id_counter: AtomicI32::new(0)), taken either right
\* after construction (prior = 0) or after `prior` calls have completed, when
\* the counter holds `prior` and no call is in flight
ConnInit ==
    /\ prior \in {0, I32Max - 1}
    /\ id_counter = prior
    /\ issued = <<>>
    /\ pc = [c \in Callers |-> "idle"]
    /\ req = [c \in Callers |-> NoReq]
    /\ attempts = [c \in Callers |-> 0]
    /\ sent = [c \in Callers |-> <<>>]
    /\ hist = [c \in Callers |-> <<>>]
    /\ last = [c \in Callers |-> NoResponse]
    /\ result = [c \in Callers |-> NoResult]

\* send_request, lines 134-142: take the id, build the request
SendRequest(c, in) ==
    /\ pc[c] = "idle"
    /\ Len(issued) < MaxCalls
    /\ id_counter' = FetchAdd(id_counter)
    /\ issued' = Append(issued, id_counter)
    /\ req' = [req EXCEPT ![c] = RpcRequest(in.method, in.params, id_counter)]
    /\ attempts' = [attempts EXCEPT ![c] = 0]
    /\ sent' = [sent EXCEPT ![c] = <<>>]
    /\ hist' = [hist EXCEPT ![c] = <<>>]
    /\ last' = [last EXCEPT ![c] = NoResponse]
    /\ result' = [result EXCEPT ![c] = NoResult]
    /\ pc' = [pc EXCEPT ![c] = "loop"]
    /\ UNCHANGED prior
    /\ UNCHANGED notConn

\* send_request, lines 144-163: attempts += 1, build and issue the HTTP request
IssueHttp(c) ==
    /\ pc[c] = "loop"
    /\ attempts' = [attempts EXCEPT ![c] = @ + 1]
    /\ IF SerializeRequest(req[c]).tag = "Err"
         THEN /\ result' = [result EXCEPT ![c] = SerializeRequest(req[c])]
              /\ pc' = [pc EXCEPT ![c] = "done"]
              /\ UNCHANGED sent
              /\ UNCHANGED wire
         ELSE /\ sent' = [sent EXCEPT ![c] = Append(@, SerializeRequest(req[c]).value)]
              /\ wire' = Some(RequestHeaders(node_user, node_password))
              /\ pc' = [pc EXCEPT ![c] = "await"]
              /\ UNCHANGED result
    /\ UNCHANGED <<id_counter, prior, issued, req, hist, last>>
    /\ UNCHANGED <<idxVars, sigVars, srvVars, parVars, node_user, node_password>>

\* send_request, lines 160-187: the node's answer arrives
ReceiveResponse(c, resp) ==
    /\ pc[c] = "await"
    /\ hist' = [hist EXCEPT ![c] = Append(@, resp.sentinel)]
    /\ last' = [last EXCEPT ![c] = resp]
    /\ IF HandleResponse(attempts[c], resp).retry
         THEN /\ pc' = [pc EXCEPT ![c] = "sleep"]
              /\ UNCHANGED result
         ELSE /\ pc' = [pc EXCEPT ![c] = "done"]
              /\ result' = [result EXCEPT ![c] = HandleResponse(attempts[c], resp).result]
    /\ UNCHANGED <<id_counter, prior, issued, req, attempts, sent>>
    /\ UNCHANGED notConn

\* send_request, lines 175-176: the 500 ms sleep ends; continue
WakeUp(c) ==
    /\ pc[c] = "sleep"
    /\ pc' = [pc EXCEPT ![c] = "loop"]
    /\ UNCHANGED <<id_counter, prior, issued, req, attempts, sent, hist, last, result>>
    /\ UNCHANGED notConn

\* the caller takes the returned value (the call's locals are dropped) and is
\* free to call again
TakeResult(c) ==
    /\ pc[c] = "done"
    /\ Len(issued) < MaxCalls
    /\ pc' = [pc EXCEPT ![c] = "idle"]
    /\ req' = [req EXCEPT ![c] = NoReq]
    /\ attempts' = [attempts EXCEPT ![c] = 0]
    /\ sent' = [sent EXCEPT ![c] = <<>>]
    /\ hist' = [hist EXCEPT ![c] = <<>>]
    /\ last' = [last EXCEPT ![c] = NoResponse]
    /\ result' = [result EXCEPT ![c] = NoResult]
    /\ UNCHANGED <<id_counter, prior, issued>>
    /\ UNCHANGED notConn

ConnNext ==
    \/ \E c \in Callers, in \in Inputs : SendRequest(c, in)
    \/ \E c \in Callers : IssueHttp(c)
    \/ \E c \in Callers, resp \in Responses : ReceiveResponse(c, resp)
    \/ \E c \in Callers : WakeUp(c)
    \/ \E c \in Callers : TakeResult(c)

(***************************************************************************)
(* Node probe: test_node_connection / test_node_and_return_uri.            *)
(***************************************************************************)
\* config.zebrad_port values followed
Ports == {8232, 18232}

\* How the node behaves on one endpoint: "up" answers every getinfo with a
\* decodable body, "down" fails every attempt, "flaky" may do either, and
\* "stall" sends response headers and then never finishes the body.
NodeModes == {"up", "down", "flaky", "stall"}

\* what one attempt runs into on an endpoint in the given mode
AttemptOutcomes(mode) ==
    CASE mode = "up" -> {"ok"}
      [] mode = "down" -> {"refused", "timeout", "body_error", "badjson"}
      [] mode = "flaky" -> {"ok", "refused", "timeout", "body_error", "badjson"}
      [] OTHER -> {}

\* format!("http://127.0.0.1:{}", port).parse() / format!("http://[::1]:{}", port).parse()
Uri(host, port) == [scheme |-> "http", host |-> host, port |-> port]
\* no Uri (yet)
NoUri == Uri(None, 0)
Ipv4Uri(port) == Uri("127.0.0.1", port)
Ipv6Uri(port) == Uri("[::1]", port)

\* test_node_connection(uri, user, password): the Result of one attempt
TestNodeConnection(outcome) ==
    CASE outcome = "ok" -> Ok("()")
      [] outcome = "timeout" -> Err("TimeoutError", outcome)
      [] outcome = "badjson" -> Err("SerdeJsonError", outcome)
      [] OTHER -> Err("HyperError", outcome)

\* the match on the IPv4 attempt: return the IPv4 URI or go on to IPv6
AfterIpv4ReturnsIpv6(res, port) ==
    IF res.tag = "Ok"
      THEN [next |-> "probe_done", uri |-> Ipv6Uri(port)]
      ELSE [next |-> "probe_v6", uri |-> NoUri]
AfterIpv4(res, port) ==
    IF res.tag = "Ok"
      THEN [next |-> "probe_done", uri |-> Ipv4Uri(port)]
      ELSE [next |-> "probe_v6", uri |-> NoUri]

\* the match on the IPv6 attempt: return the IPv6 URI or sleep 3 s
AfterIpv6(res, port) ==
    IF res.tag = "Ok"
      THEN [next |-> "probe_done", uri |-> Ipv6Uri(port)]
      ELSE [next |-> "probe_sleep", uri |-> NoUri]

\* for _ in 0..3: is there another round after `n` completed ones
AnotherRoundOffByOne(n) == n <= ProbeRounds
AnotherRound(n) == n < ProbeRounds

(***************************************************************************)
(* Indexer::new, Indexer::serve, Indexer::shutdown.                        *)
(***************************************************************************)
\* `config.check_config()?` : where Indexer::new goes on
AfterCheckConfigIgnored(res) == "probe_v4"
AfterCheckConfig(res) == IF res.tag = "Err" THEN "failed" ELSE "probe_v4"

\* StatusType::from(usize): the Status enumeration
\* Spawning(5), Starting(0), Listening(1), Working(2), Closing(4), Offline(3)
StatusType(n) ==
    CASE n = 0 -> "Starting"
      [] n = 1 -> "Listening"
      [] n = 2 -> "Working"
      [] n = 3 -> "Offline"
      [] n = 4 -> "Closing"
      [] OTHER -> "Spawning"

\* `handle.await` on the server task's JoinHandle: ready once the task ended
JoinHandleReadyAtOnce(task) == task # "none"
JoinHandleReady(task) == task = "finished"

\* the value the Ctrl-C handler stores into the online flag
CtrlcStoreForgotten(cur) == cur
CtrlcStore(cur) == FALSE

\* Indexer::check_for_shutdown
CheckForShutdown(status, isOnline) ==
    IF status >= 4 THEN TRUE
    ELSE IF ~isOnline THEN TRUE
    ELSE FALSE

\* the caller holds an IndexerConfig and an online flag set to true, and is
\* about to call Indexer::new
IdxInitWith(n4, n6, port) ==
    /\ node4 = n4
    /\ node6 = n6
    /\ zebrad_port = port
    /\ ipc = "new"
    /\ check_result = NoResult
    /\ round = 0
    /\ attempts4 = 0
    /\ attempts6 = 0
    /\ last4 = NoResult
    /\ last6 = NoResult
    /\ zebrad_uri = NoUri
    /\ new_result = NoResult
    /\ exit_code = Absent
    /\ indexer_status = Absent
    /\ server_status = <<>>
    /\ server = None
    /\ online = TRUE
    /\ tpc = "none"
    /\ server_task = "none"
    /\ serve_result = NoResult
    /\ hpc = "none"

IdxInit == \E n4 \in NodeModes, n6 \in NodeModes, port \in Ports : IdxInitWith(n4, n6, port)

\* Indexer::new, lines 77-82: check_config, IndexerStatus::new
CheckConfig(res) ==
    /\ ipc = "new"
    /\ check_result' = res
    /\ ipc' = AfterCheckConfig(res)
    /\ IF AfterCheckConfig(res) = "failed"
         THEN /\ new_result' = res
              /\ UNCHANGED <<indexer_status, server_status>>
         ELSE /\ indexer_status' = Some(5)
              /\ UNCHANGED server_status
              /\ UNCHANGED new_result
    /\ UNCHANGED <<node4, node6, zebrad_port, probeVars, exit_code, server, online,
                   tpc, server_task, serve_result>>
    /\ UNCHANGED notIdx

\* test_node_and_return_uri, line 472: the IPv4 attempt of a round starts
ProbeTryIpv4 ==
    /\ ipc = "probe_v4"
    /\ attempts4' = attempts4 + 1
    /\ ipc' = "probe_v4_wait"
    /\ UNCHANGED <<node4, node6, zebrad_port, check_result, round, attempts6, last4, last6,
                   zebrad_uri, new_result, exit_code, indexer_status, server_status,
                   server, online, tpc, server_task, serve_result>>
    /\ wire' = Some(ProbeHeaders(node_user, node_password))
    /\ UNCHANGED <<connVars, sigVars, srvVars, parVars, node_user, node_password>>

\* test_node_and_return_uri, lines 472-481: the IPv4 attempt ends
ProbeIpv4Result(outcome) ==
    /\ ipc = "probe_v4_wait"
    /\ outcome \in AttemptOutcomes(node4)
    /\ last4' = TestNodeConnection(outcome)
    /\ ipc' = AfterIpv4(TestNodeConnection(outcome), zebrad_port).next
    /\ zebrad_uri' = AfterIpv4(TestNodeConnection(outcome), zebrad_port).uri
    /\ UNCHANGED <<node4, node6, zebrad_port, check_result, round, attempts4, attempts6,
                   last6, new_result, exit_code, indexer_status, server_status,
                   server, online, tpc, server_task, serve_result>>
    /\ UNCHANGED notIdx

\* test_node_and_return_uri, line 482: the IPv6 attempt of a round starts
ProbeTryIpv6 ==
    /\ ipc = "probe_v6"
    /\ attempts6' = attempts6 + 1
    /\ ipc' = "probe_v6_wait"
    /\ UNCHANGED <<node4, node6, zebrad_port, check_result, round, attempts4, last4, last6,
                   zebrad_uri, new_result, exit_code, indexer_status, server_status,
                   server, online, tpc, server_task, serve_result>>
    /\ wire' = Some(ProbeHeaders(node_user, node_password))
    /\ UNCHANGED <<connVars, sigVars, srvVars, parVars, node_user, node_password>>

\* test_node_and_return_uri, lines 482-493: the IPv6 attempt ends
ProbeIpv6Result(outcome) ==
    /\ ipc = "probe_v6_wait"
    /\ outcome \in AttemptOutcomes(node6)
    /\ last6' = TestNodeConnection(outcome)
    /\ ipc' = AfterIpv6(TestNodeConnection(outcome), zebrad_port).next
    /\ zebrad_uri' = AfterIpv6(TestNodeConnection(outcome), zebrad_port).uri
    /\ UNCHANGED <<node4, node6, zebrad_port, check_result, round, attempts4, attempts6,
                   last4, new_result, exit_code, indexer_status, server_status,
                   server, online, tpc, server_task, serve_result>>
    /\ UNCHANGED notIdx

\* test_node_and_return_uri, lines 492-498: the 3 s sleep and the interval
\* tick end; the next round starts, or the loop is left
ProbeNextRound ==
    /\ ipc = "probe_sleep"
    /\ round' = round + 1
    /\ ipc' = IF AnotherRound(round + 1) THEN "probe_v4" ELSE "probe_exit"
    /\ UNCHANGED <<node4, node6, zebrad_port, check_result, attempts4, attempts6, last4,
                   last6, zebrad_uri, new_result, exit_code, indexer_status,
                   server_status, server, online, tpc, server_task, serve_result>>
    /\ UNCHANGED notIdx

\* test_node_and_return_uri, lines 499-500: std::process::exit(1)
ProbeExit ==
    /\ ipc = "probe_exit"
    /\ exit_code' = Some(1)
    /\ ipc' = "exited"
    /\ UNCHANGED <<node4, node6, zebrad_port, check_result, probeVars, new_result,
                   indexer_status, server_status, server, online, tpc, server_task,
                   serve_result>>
    /\ UNCHANGED notIdx

\* Indexer::new, line 89: status.indexer_status.store(0)
StoreStarting ==
    /\ ipc = "probe_done"
    /\ indexer_status' = Some(0)
    /\ ipc' = "spawn"
    /\ UNCHANGED <<node4, node6, zebrad_port, check_result, probeVars, new_result,
                   exit_code, server_status, server, online, tpc, server_task,
                   serve_result>>
    /\ UNCHANGED notIdx

\* Indexer::new, lines 90-109: Server::spawn(..).await? and Ok(Indexer {..})
SpawnServer(res) ==
    /\ ipc = "spawn"
    /\ IF res.tag = "Err"
         THEN /\ new_result' = res
              /\ ipc' = "failed"
              /\ UNCHANGED server
         ELSE /\ server' = "Server"
              /\ new_result' = Ok("Indexer")
              /\ ipc' = "constructed"
    /\ UNCHANGED <<node4, node6, zebrad_port, check_result, probeVars, exit_code,
                   indexer_status, server_status, online, tpc, server_task, serve_result>>
    /\ UNCHANGED notIdx

\* Indexer::shutdown(&mut self): callable while the caller owns the Indexer
Shutdown ==
    /\ ipc = "constructed"
    /\ indexer_status' = Some(4)
    /\ UNCHANGED <<node4, node6, zebrad_port, ipc, check_result, probeVars, new_result,
                   exit_code, server_status, server, online, tpc, server_task,
                   serve_result>>
    /\ UNCHANGED notIdx

\* Indexer::serve(mut self): the Indexer moves into the spawned task
Serve ==
    /\ ipc = "constructed"
    /\ ipc' = "serving"
    /\ tpc' = "start"
    /\ UNCHANGED <<node4, node6, zebrad_port, check_result, probeVars, new_result,
                   exit_code, indexer_status, server_status, server, online,
                   server_task, serve_result>>
    /\ UNCHANGED notIdx

\* serve task, lines 118-125: self.server.take(), server.serve().await
TaskStartServer ==
    /\ tpc = "start"
    /\ IF server = None
         THEN /\ serve_result' = Err("MiscIndexerError", "Server Missing! Fatal Error!.")
              /\ tpc' = "returned"
              /\ UNCHANGED <<server, server_task>>
         ELSE /\ server' = None
              /\ server_task' = "running"
              /\ tpc' = "store_working"
              /\ UNCHANGED serve_result
    /\ UNCHANGED <<node4, node6, zebrad_port, ipc, check_result, probeVars, new_result,
                   exit_code, indexer_status, server_status, online>>
    /\ UNCHANGED notIdx

\* serve task, line 127: self.status.indexer_status.store(2)
TaskStoreWorking ==
    /\ tpc = "store_working"
    /\ indexer_status' = Some(2)
    /\ tpc' = "loop"
    /\ UNCHANGED <<node4, node6, zebrad_port, ipc, check_result, probeVars, new_result,
                   exit_code, server_status, server, online, server_task, serve_result>>
    /\ UNCHANGED notIdx

\* serve task, lines 130-133 and 138: load, check_for_shutdown; store(4) when
\* it holds, otherwise wait for the interval tick
TaskLoopCheck ==
    /\ tpc = "loop"
    /\ IF CheckForShutdown(Value(indexer_status), online)
         THEN /\ indexer_status' = Some(4)
              /\ tpc' = "shutdown_components"
         ELSE /\ tpc' = "tick"
              /\ UNCHANGED indexer_status
    /\ UNCHANGED <<node4, node6, zebrad_port, ipc, check_result, probeVars, new_result,
                   exit_code, server_status, server, online, server_task, serve_result>>
    /\ UNCHANGED notIdx

\* serve task, line 138: interval.tick().await completes
TaskTick ==
    /\ tpc = "tick"
    /\ tpc' = "loop"
    /\ UNCHANGED <<node4, node6, zebrad_port, ipc, check_result, probeVars, new_result,
                   exit_code, indexer_status, server_status, server, online,
                   server_task, serve_result>>
    /\ UNCHANGED notIdx

\* shutdown_components, line 165: server_status.store(4)
TaskShutdownComponents ==
    /\ tpc = "shutdown_components"
    /\ server_status' = Append(server_status, 4)
    /\ tpc' = "await_server"
    /\ UNCHANGED <<node4, node6, zebrad_port, ipc, check_result, probeVars, new_result,
                   exit_code, indexer_status, server, online, server_task, serve_result>>
    /\ UNCHANGED notIdx

\* shutdown_components, line 166: handle.await.ok() completes once the server
\* task has finished
TaskAwaitServer ==
    /\ tpc = "await_server"
    /\ JoinHandleReady(server_task)
    /\ tpc' = "store_final"
    /\ UNCHANGED <<node4, node6, zebrad_port, ipc, check_result, probeVars, new_result,
                   exit_code, indexer_status, server_status, server, online,
                   server_task, serve_result>>
    /\ UNCHANGED notIdx

\* serve task, lines 135-136: store(5); return Ok(())
TaskStoreFinal ==
    /\ tpc = "store_final"
    /\ indexer_status' = Some(5)
    /\ serve_result' = Ok("()")
    /\ tpc' = "returned"
    /\ UNCHANGED <<node4, node6, zebrad_port, ipc, check_result, probeVars, new_result,
                   exit_code, server_status, server, online, server_task>>
    /\ UNCHANGED notIdx

\* the task returned by server.serve() ends (on its own, on an error, or
\* because it saw its status or the online flag)
ServerTaskEnds ==
    /\ server_task = "running"
    /\ server_task' = "finished"
    /\ UNCHANGED <<node4, node6, zebrad_port, ipc, check_result, probeVars, new_result,
                   exit_code, indexer_status, server_status, server, online, tpc,
                   serve_result>>
    /\ UNCHANGED notIdx

\* another holder of the Arc<AtomicBool> stores false into it
SetOffline ==
    /\ exit_code = Absent
    /\ online
    /\ online' = FALSE
    /\ UNCHANGED <<node4, node6, zebrad_port, ipc, check_result, probeVars, new_result,
                   exit_code, indexer_status, server_status, server, tpc, server_task,
                   serve_result>>
    /\ UNCHANGED notIdx

IdxNext ==
    \/ \E res \in {Ok("()"), Err("ConfigError", "check_config")} : CheckConfig(res)
    \/ ProbeTryIpv4
    \/ \E o \in AttemptOutcomes("flaky") : ProbeIpv4Result(o)
    \/ ProbeTryIpv6
    \/ \E o \in AttemptOutcomes("flaky") : ProbeIpv6Result(o)
    \/ ProbeNextRound
    \/ ProbeExit
    \/ StoreStarting
    \/ \E res \in {Ok("Server"), Err("ServerError", "spawn")} : SpawnServer(res)
    \/ Shutdown
    \/ Serve
    \/ TaskStartServer
    \/ TaskStoreWorking
    \/ TaskLoopCheck
    \/ TaskTick
    \/ TaskShutdownComponents
    \/ TaskAwaitServer
    \/ TaskStoreFinal
    \/ ServerTaskEnds
    \/ SetOffline

(***************************************************************************)
(* Ingestors (TcpIngestor, NymIngestor), the request queue they feed and   *)
(* the ProxyServer.  All of them read the online flag of the indexer.      *)
(***************************************************************************)
Ingestors == {"tcp", "nym"}

\* enum IngestorStatus
IngestorStatus == {"Inactive", "Listening", "Closing", "Offline"}

\* TcpIngestor::check_online / NymIngestor::check_online
IngestorCheckOnline(flag) == flag

\* TcpIngestor::check_for_shutdown / NymIngestor::check_for_shutdown
IngestorCheckForShutdownOwnStatusOnly(status, flag) ==
    IF status = "Closing" THEN TRUE ELSE FALSE
IngestorCheckForShutdown(status, flag) ==
    IF status = "Closing" THEN TRUE
    ELSE IF ~IngestorCheckOnline(flag) THEN TRUE
    ELSE FALSE

\* ZingoProxyRequest::new_from_grpc(stream)
NewFromGrpc(conn) == [transport |-> "Grpc", conn |-> conn]

\* ZingoProxyRequest::new_from_nym(return_recipient, bytes): a request, or a
\* RequestError for bytes that are no request.  Payload <<1>> stands for a
\* well-formed request, <<0>> for a malformed one; what the constructor
\* makes of an empty payload is left open.
NewFromNymOutcomes(conn, tag, bytes) ==
    LET made == Ok([transport |-> "Nym", conn |-> conn])
        failed == Err("RequestError", "new_from_nym")
    IN  IF bytes = <<1>> THEN {made}
        ELSE IF bytes = <<0>> THEN {failed}
        ELSE {made, failed}

\* QueueSender::try_send: Ok, QueueFull(request) or Closed
TrySendOverwrites(q, open, r) ==
    IF Len(q) >= max_queue_size
      THEN [res |-> "Ok", queue |-> Append(SubSeq(q, 1, Len(q) - 1), r), returned |-> Absent]
    ELSE IF ~open THEN [res |-> "Closed", queue |-> q, returned |-> Absent]
    ELSE [res |-> "Ok", queue |-> Append(q, r), returned |-> Absent]
TrySend(q, open, r) ==
    IF Len(q) >= max_queue_size
      THEN [res |-> "QueueFull", queue |-> q, returned |-> Some(r)]
    ELSE IF ~open THEN [res |-> "Closed", queue |-> q, returned |-> Absent]
    ELSE [res |-> "Ok", queue |-> Append(q, r), returned |-> Absent]

\* receive: the oldest request leaves the queue
RecvNewest(q) == [item |-> q[Len(q)], rest |-> SubSeq(q, 1, Len(q) - 1)]
RecvOldest(q) == [item |-> Head(q), rest |-> Tail(q)]

\* the log of accepted requests after a try_send
Accepted(log, tried, r) == IF tried.res = "Ok" THEN Append(log, r) ELSE log

\* what the ingestor writes to the wallet after try_send: nothing in any of
\* the three arms (lines 84-93, 195-206); the request is dropped with its stream
ReplyAfterTrySend(res) == None

\* where the serve loop goes after try_send: every arm falls out of the match
\* and the loop goes round again
PcAfterTrySend(res) == "loop"

\* the messages wait_for_messages() can hand over: None, or a list of
\* ReconstructedMessage {message, sender_tag}
NymMessage(bytes, tag) == [message |-> bytes, sender_tag |-> tag]
NymLists ==
    { <<>>,
      <<NymMessage(<<1>>, Some("tag"))>>,
      <<NymMessage(<<0>>, Some("tag"))>>,
      <<NymMessage(<<>>, Some("tag"))>>,
      <<NymMessage(<<1>>, Absent)>>,
      <<NymMessage(<<>>, Absent)>> }
NymIncoming == {Absent} \cup {Some(l) : l \in NymLists}

\* a name for each kind of inbound message, for the log of handled events
NymKind(incoming) ==
    IF incoming = Absent THEN "none"
    ELSE LET l == Value(incoming)
         IN  IF Len(l) = 0 THEN "empty_list"
             ELSE IF l[1].sender_tag = Absent
                    THEN (IF l[1].message = <<>> THEN "empty_payload_no_tag" ELSE "no_tag")
             ELSE IF l[1].message = <<>> THEN "empty_payload"
             ELSE IF l[1].message = <<1>> THEN "valid"
             ELSE "bad_payload"

\* NymIngestor::serve, lines 184-187: request.first().map(..).ok_or_else(..)
FirstMessage(request) ==
    IF Len(request) = 0 THEN Err("NymError", "EmptyMessageError")
    ELSE Ok(request[1].message)

\* NymIngestor::serve, lines 189-191: request[0].sender_tag.ok_or_else(..)
ReturnRecipient(request) ==
    IF request[1].sender_tag = Absent THEN Err("NymError", "EmptyRecipientTagError")
    ELSE Ok(Value(request[1].sender_tag))

NoInbound == [conn |-> 0, event |-> None, outcome |-> None, reply |-> None]
Handled(conn, event, outcome, reply) ==
    [conn |-> conn, event |-> event, outcome |-> outcome, reply |-> reply]

\* nothing of the server side exists (the states of the other specifications)
SrvIdle ==
    /\ ing_pc = [i \in Ingestors |-> "none"]
    /\ ing_status = [i \in Ingestors |-> "Inactive"]
    /\ ing_result = [i \in Ingestors |-> NoResult]
    /\ last_in = [i \in Ingestors |-> NoInbound]
    /\ inbound = 0
    /\ queue = <<>>
    /\ queue_open = TRUE
    /\ ppc = "none"
    /\ client_flag = Absent
    /\ proxy_result = NoResult
    /\ enqueued = <<>>
    /\ received = <<>>

\* TcpIngestor::spawn / NymIngestor::spawn: status Inactive, the online flag
\* of the caller; the queue is empty and open
SrvInit ==
    /\ ing_pc = [i \in Ingestors |-> "spawned"]
    /\ ing_status = [i \in Ingestors |-> "Inactive"]
    /\ ing_result = [i \in Ingestors |-> NoResult]
    /\ last_in = [i \in Ingestors |-> NoInbound]
    /\ inbound = 0
    /\ queue = <<>>
    /\ queue_open = TRUE
    /\ ppc = "none"
    /\ client_flag = Absent
    /\ proxy_result = NoResult
    /\ enqueued = <<>>
    /\ received = <<>>

\* TcpIngestor::shutdown / NymIngestor::shutdown (&mut self: before serve
\* moves the ingestor into its task)
IngShutdown(i) ==
    /\ ing_pc[i] = "spawned"
    /\ ing_status' = [ing_status EXCEPT ![i] = "Closing"]
    /\ UNCHANGED <<ing_pc, ing_result, last_in, inbound, queue, queue_open,
                   ppc, client_flag, proxy_result, enqueued, received>>
    /\ UNCHANGED notSrv

\* serve(mut self), lines 63-68 / 161-166: the task starts and sets Listening
IngServe(i) ==
    /\ ing_pc[i] = "spawned"
    /\ ing_pc' = [ing_pc EXCEPT ![i] = "loop"]
    /\ ing_status' = [ing_status EXCEPT ![i] = "Listening"]
    /\ UNCHANGED <<ing_result, last_in, inbound, queue, queue_open,
                   ppc, client_flag, proxy_result, enqueued, received>>
    /\ UNCHANGED notSrv

\* serve loop, lines 71-75 / 170-174: the interval.tick() branch of select!
IngTick(i) ==
    /\ ing_pc[i] = "loop"
    /\ IF IngestorCheckForShutdown(ing_status[i], online)
         THEN /\ ing_pc' = [ing_pc EXCEPT ![i] = "returned"]
              /\ ing_result' = [ing_result EXCEPT ![i] = Ok("()")]
         ELSE UNCHANGED <<ing_pc, ing_result>>
    /\ UNCHANGED <<ing_status, last_in, inbound, queue, queue_open,
                   ppc, client_flag, proxy_result, enqueued, received>>
    /\ UNCHANGED notSrv

\* TcpIngestor::serve, lines 76-99: the accept() branch of select!
TcpAccept(incoming) ==
    /\ ing_pc["tcp"] = "loop"
    /\ inbound < MaxInbound
    /\ inbound' = inbound + 1
    /\ IF IngestorCheckForShutdown(ing_status["tcp"], online)
         THEN /\ ing_pc' = [ing_pc EXCEPT !["tcp"] = "returned"]
              /\ ing_result' = [ing_result EXCEPT !["tcp"] = Ok("()")]
              /\ last_in' = [last_in EXCEPT !["tcp"] =
                                Handled(inbound', incoming, "shutdown", None)]
              /\ UNCHANGED <<queue, enqueued>>
         ELSE IF incoming = "accept_error"
         THEN /\ last_in' = [last_in EXCEPT !["tcp"] =
                                Handled(inbound', incoming, "accept_error", None)]
              /\ UNCHANGED <<ing_pc, ing_result, queue, enqueued>>
         ELSE LET tried == TrySend(queue, queue_open, NewFromGrpc(inbound'))
              IN  /\ queue' = tried.queue
                  /\ enqueued' = Accepted(enqueued, tried, NewFromGrpc(inbound'))
                  /\ last_in' = [last_in EXCEPT !["tcp"] =
                                    Handled(inbound', incoming, tried.res,
                                            ReplyAfterTrySend(tried.res))]
                  /\ ing_pc' = [ing_pc EXCEPT !["tcp"] = PcAfterTrySend(tried.res)]
                  /\ UNCHANGED ing_result
    /\ UNCHANGED <<ing_status, queue_open, ppc, client_flag, proxy_result, received>>
    /\ UNCHANGED notSrv

\* the task ends with Err(e) through the `?` operator
NymFails(e, conn, kind) ==
    /\ ing_pc' = [ing_pc EXCEPT !["nym"] = "returned"]
    /\ ing_result' = [ing_result EXCEPT !["nym"] = e]
    /\ last_in' = [last_in EXCEPT !["nym"] = Handled(conn, kind, e.value, None)]
    /\ UNCHANGED <<queue, enqueued>>

\* NymIngestor::serve, lines 175-212: the wait_for_messages() branch of select!
NymReceive(incoming) ==
    /\ ing_pc["nym"] = "loop"
    /\ inbound < MaxInbound
    /\ inbound' = inbound + 1
    /\ LET kind == NymKind(incoming)
       IN  IF IngestorCheckForShutdown(ing_status["nym"], online)
             THEN /\ ing_pc' = [ing_pc EXCEPT !["nym"] = "returned"]
                  /\ ing_result' = [ing_result EXCEPT !["nym"] = Ok("()")]
                  /\ last_in' = [last_in EXCEPT !["nym"] =
                                    Handled(inbound', kind, "shutdown", None)]
                  /\ UNCHANGED <<queue, enqueued>>
           ELSE IF incoming = Absent
             THEN /\ last_in' = [last_in EXCEPT !["nym"] =
                                    Handled(inbound', kind, "no_message", None)]
                  /\ UNCHANGED <<ing_pc, ing_result, queue, enqueued>>
           ELSE LET request == Value(incoming)
                    request_vu8 == FirstMessage(request)
                IN  IF request_vu8.tag = "Err"
                      THEN NymFails(request_vu8, inbound', kind)
                    ELSE LET return_recipient == ReturnRecipient(request)
                         IN  IF return_recipient.tag = "Err"
                               THEN NymFails(return_recipient, inbound', kind)
                             ELSE \E made \in NewFromNymOutcomes(inbound',
                                                  return_recipient.value,
                                                  request_vu8.value) :
                                   IF made.tag = "Err"
                                     THEN NymFails(made, inbound', kind)
                                   ELSE LET tried == TrySend(queue, queue_open, made.value)
                                        IN  /\ queue' = tried.queue
                                            /\ enqueued' = Accepted(enqueued, tried, made.value)
                                            /\ last_in' = [last_in EXCEPT !["nym"] =
                                                  Handled(inbound', kind, tried.res,
                                                          ReplyAfterTrySend(tried.res))]
                                            /\ ing_pc' = [ing_pc EXCEPT !["nym"] =
                                                  PcAfterTrySend(tried.res)]
                                            /\ UNCHANGED ing_result
    /\ UNCHANGED <<ing_status, queue_open, ppc, client_flag, proxy_result, received>>
    /\ UNCHANGED notSrv

\* a worker receives the oldest request of the queue
Recv ==
    /\ queue_open
    /\ queue # <<>>
    /\ queue' = RecvOldest(queue).rest
    /\ received' = Append(received, RecvOldest(queue).item)
    /\ UNCHANGED <<ing_pc, ing_status, ing_result, last_in, inbound, queue_open,
                   ppc, client_flag, proxy_result, enqueued>>
    /\ UNCHANGED notSrv

\* the receiving side of the queue is dropped: the queue is closed
CloseQueue ==
    /\ queue_open
    /\ queue_open' = FALSE
    /\ UNCHANGED <<ing_pc, ing_status, ing_result, last_in, inbound, queue,
                   ppc, client_flag, proxy_result, enqueued, received>>
    /\ UNCHANGED notSrv

\* ProxyServer::new, lines 47-53: the ProxyClient gets
\* online: Arc::new(AtomicBool::new(true))
ProxyNew ==
    /\ ppc = "none"
    /\ ppc' = "new"
    /\ client_flag' = Some(TRUE)
    /\ UNCHANGED <<ing_pc, ing_status, ing_result, last_in, inbound, queue, queue_open,
                   proxy_result, enqueued, received>>
    /\ UNCHANGED notSrv

\* ProxyServer::serve(self, port, online), lines 23-31: the task is spawned
ProxyServe ==
    /\ ppc = "new"
    /\ ppc' = "check"
    /\ UNCHANGED <<ing_pc, ing_status, ing_result, last_in, inbound, queue, queue_open,
                   client_flag, proxy_result, enqueued, received>>
    /\ UNCHANGED notSrv

\* ProxyServer::serve, lines 32 and 42: while online.load(SeqCst) {..} Ok(())
ProxyCheckOnline ==
    /\ ppc = "check"
    /\ IF online
         THEN /\ ppc' = "serving"
              /\ UNCHANGED proxy_result
         ELSE /\ ppc' = "returned"
              /\ proxy_result' = Ok("()")
    /\ UNCHANGED <<ing_pc, ing_status, ing_result, last_in, inbound, queue, queue_open,
                   client_flag, enqueued, received>>
    /\ UNCHANGED notSrv

\* ProxyServer::serve, lines 33-40: the tonic server returns
ProxyServerReturns(server_res) ==
    /\ ppc = "serving"
    /\ IF server_res.tag = "Ok"
         THEN /\ ppc' = "check"
              /\ UNCHANGED proxy_result
         ELSE /\ ppc' = "returned"
              /\ proxy_result' = server_res
    /\ UNCHANGED <<ing_pc, ing_status, ing_result, last_in, inbound, queue, queue_open,
                   client_flag, enqueued, received>>
    /\ UNCHANGED notSrv

SrvNext ==
    \/ \E i \in Ingestors : IngShutdown(i)
    \/ \E i \in Ingestors : IngServe(i)
    \/ \E i \in Ingestors : IngTick(i)
    \/ \E incoming \in {"stream", "accept_error"} : TcpAccept(incoming)
    \/ \E incoming \in NymIncoming : NymReceive(incoming)
    \/ Recv
    \/ CloseQueue
    \/ ProxyNew
    \/ ProxyServe
    \/ ProxyCheckOnline
    \/ \E server_res \in {Ok("()"), Err("TransportError", "serve")} :
          ProxyServerReturns(server_res)
    \/ SetOffline

(***************************************************************************)
(* Block parser (blockcache): bytes, cursors, CompactSize, BlockHeaderData, *)
(* the coinbase script number, FullBlock::parse_from_slice.                *)
(*                                                                         *)
(* A byte is a number in 0..255, a byte string a sequence of bytes.  A u32 *)
(* is kept as its two 16-bit halves [lo, hi], a u64 / i64 as its 8 bytes,  *)
(* least significant first (two's complement for i64), so that no value    *)
(* leaves the range of the checker's integers.  An i32 is an integer.      *)
(***************************************************************************)
Fill(n, b) == [k \in 1..n |-> b]

\* i32::to_le_bytes
I32ToLeBytes(n) ==
    LET m == IF n < 0 THEN (n + I32Max) + 1 ELSE n      \* n with the sign bit cleared
        top == (m \div 16777216) + (IF n < 0 THEN 128 ELSE 0)
    IN  << m % 256, (m \div 256) % 256, (m \div 65536) % 256, top >>

\* i32 from 4 little-endian bytes (ReadBytesExt::read_i32::<LittleEndian>)
I32FromLeBytes(b) ==
    LET top == IF b[4] >= 128 THEN b[4] - 256 ELSE b[4]
    IN  top * 16777216 + b[3] * 65536 + b[2] * 256 + b[1]

\* u32::to_le_bytes / read_u32::<LittleEndian>
U32(lo, hi) == [lo |-> lo, hi |-> hi]
U32ToLeBytes(t) == << t.lo % 256, t.lo \div 256, t.hi % 256, t.hi \div 256 >>
U32FromLeBytes(b) == U32(b[1] + 256 * b[2], b[3] + 256 * b[4])

\* a number below 2^31 as a u64
U64FromNat(n) ==
    << n % 256, (n \div 256) % 256, (n \div 65536) % 256, n \div 16777216, 0, 0, 0, 0 >>

\* what is left of the input from the cursor on: &data[cursor.position()..]
Rest(data, pos) == SubSeq(data, pos + 1, Len(data))

\* utils::read_bytes: the next n bytes, or InvalidData(error_msg) at eof
ReadBytes(data, pos, n, error_msg) ==
    IF pos + n > Len(data) THEN Err("InvalidData", error_msg)
    ELSE Ok([v |-> SubSeq(data, pos + 1, pos + n), pos |-> pos + n])

\* utils::read_i32 / utils::read_u32
ReadI32(data, pos, error_msg) ==
    IF pos + 4 > Len(data) THEN Err("InvalidData", error_msg)
    ELSE Ok([v |-> I32FromLeBytes(SubSeq(data, pos + 1, pos + 4)), pos |-> pos + 4])
ReadU32(data, pos, error_msg) ==
    IF pos + 4 > Len(data) THEN Err("InvalidData", error_msg)
    ELSE Ok([v |-> U32FromLeBytes(SubSeq(data, pos + 1, pos + 4)), pos |-> pos + 4])

\* zcash_encoding::CompactSize::read as called at block.rs:126 and :220; an
\* io::Error becomes ParseError::Io through `?`
MAX_COMPACT_SIZE == 33554432
CompactSizeRead(data, pos) ==
    IF pos + 1 > Len(data) THEN Err("Io", "UnexpectedEof")
    ELSE LET flag == data[pos + 1]
         IN  IF flag < 253 THEN Ok([v |-> flag, pos |-> pos + 1])
             ELSE IF flag = 253 THEN
                 IF pos + 3 > Len(data) THEN Err("Io", "UnexpectedEof")
                 ELSE LET n == data[pos + 2] + 256 * data[pos + 3]
                      IN  IF n < 253 THEN Err("Io", "non-canonical CompactSize")
                          ELSE Ok([v |-> n, pos |-> pos + 3])
             ELSE IF flag = 254 THEN
                 IF pos + 5 > Len(data) THEN Err("Io", "UnexpectedEof")
                 ELSE LET b == SubSeq(data, pos + 2, pos + 5)
                      IN  IF b[4] = 0 /\ b[3] = 0 THEN Err("Io", "non-canonical CompactSize")
                          ELSE IF b[4] > 2 \/ (b[4] = 2 /\ (b[3] > 0 \/ b[2] > 0 \/ b[1] > 0))
                            THEN Err("Io", "CompactSize too large")
                          ELSE Ok([v |-> b[4] * 16777216 + b[3] * 65536 + b[2] * 256 + b[1],
                                   pos |-> pos + 5])
             ELSE IF pos + 9 > Len(data) THEN Err("Io", "UnexpectedEof")
             ELSE IF \A k \in 6..9 : data[pos + k] = 0
               THEN Err("Io", "non-canonical CompactSize")
             ELSE Err("Io", "CompactSize too large")

\* zcash_encoding::CompactSize::write as called at block.rs:163 (sizes below 2^31)
CompactSizeWriteOneByte(size) == << size % 256 >>
CompactSizeWrite(size) ==
    IF size < 253 THEN << size >>
    ELSE IF size <= 65535 THEN << 253, size % 256, size \div 256 >>
    ELSE << 254, size % 256, (size \div 256) % 256, (size \div 65536) % 256,
            size \div 16777216 >>

\* struct BlockHeaderData
BlockHeaderData(version, hash_prev_block, hash_merkle_root, hash_final_sapling_root, time, n_bits_bytes, nonce, solution) ==
    [version |-> version, hash_prev_block |-> hash_prev_block,
     hash_merkle_root |-> hash_merkle_root,
     hash_final_sapling_root |-> hash_final_sapling_root,
     time |-> time, n_bits_bytes |-> n_bits_bytes, nonce |-> nonce,
     solution |-> solution]

\* BlockHeaderData::parse_from_slice(data, txid): Ok([rem, hdr]) or Err
BlockHeaderDataParse(data, txid) ==
    IF txid # Absent
      THEN Err("InvalidData", "txid must be None for BlockHeaderData::parse_from_slice")
    ELSE
    LET version == ReadI32(data, 0, "Error reading BlockHeaderData::version")
    IN  IF version.tag = "Err" THEN version ELSE
    LET hash_prev_block == ReadBytes(data, version.value.pos, 32,
                               "Error reading BlockHeaderData::hash_prev_block")
    IN  IF hash_prev_block.tag = "Err" THEN hash_prev_block ELSE
    LET hash_merkle_root == ReadBytes(data, hash_prev_block.value.pos, 32,
                               "Error reading BlockHeaderData::hash_merkle_root")
    IN  IF hash_merkle_root.tag = "Err" THEN hash_merkle_root ELSE
    LET hash_final_sapling_root == ReadBytes(data, hash_merkle_root.value.pos, 32,
                               "Error reading BlockHeaderData::hash_final_sapling_root")
    IN  IF hash_final_sapling_root.tag = "Err" THEN hash_final_sapling_root ELSE
    LET time == ReadU32(data, hash_final_sapling_root.value.pos,
                               "Error reading BlockHeaderData::time")
    IN  IF time.tag = "Err" THEN time ELSE
    LET n_bits_bytes == ReadBytes(data, time.value.pos, 4,
                               "Error reading BlockHeaderData::n_bits_bytes")
    IN  IF n_bits_bytes.tag = "Err" THEN n_bits_bytes ELSE
    LET nonce == ReadBytes(data, n_bits_bytes.value.pos, 32,
                               "Error reading BlockHeaderData::nonce")
    IN  IF nonce.tag = "Err" THEN nonce ELSE
    LET compact_length == CompactSizeRead(data, nonce.value.pos)
    IN  IF compact_length.tag = "Err" THEN compact_length ELSE
    LET solution == ReadBytes(data, compact_length.value.pos, compact_length.value.v,
                               "Error reading BlockHeaderData::solution")
    IN  IF solution.tag = "Err" THEN solution ELSE
        Ok([rem |-> Rest(data, solution.value.pos),
            hdr |-> BlockHeaderData(version.value.v, hash_prev_block.value.v,
                                    hash_merkle_root.value.v,
                                    hash_final_sapling_root.value.v, time.value.v,
                                    n_bits_bytes.value.v, nonce.value.v,
                                    solution.value.v)])

\* BlockHeaderData::to_binary
ToBinary(h) ==
    I32ToLeBytes(h.version) \o h.hash_prev_block \o h.hash_merkle_root
        \o h.hash_final_sapling_root \o U32ToLeBytes(h.time) \o h.n_bits_bytes
        \o h.nonce \o CompactSizeWrite(Len(h.solution)) \o h.solution

\* sha2::Sha256 as called at block.rs:174-178: a digest is a term over the
\* bytes that were fed to the hasher; update appends to them, finalize_reset
\* gives the digest and empties the hasher
Sha256(input) == << [sha256 |-> input] >>
HasherNew == <<>>
HasherUpdate(hasher, bytes) == hasher \o bytes
HasherFinalize(hasher) == Sha256(hasher)
HasherFinalizeKeeps(hasher) == [digest |-> HasherFinalize(hasher), hasher |-> hasher]
HasherFinalizeReset(hasher) == [digest |-> HasherFinalize(hasher), hasher |-> HasherNew]

\* BlockHeaderData::get_block_hash
GetBlockHash(h) ==
    LET serialized_header == ToBinary(h)
        first == HasherFinalizeReset(HasherUpdate(HasherNew, serialized_header))
    IN  HasherFinalize(HasherUpdate(first.hasher, first.digest))

\* read_zcash_script_int64 OP codes
OP_0 == 0
OP_1_NEGATE == 79
OP_1 == 81
OP_16 == 96

\* the fold of read_zcash_script_i64: (acc << 8) | u64::from(byte) on a u64,
\* over the bytes from the last to the first
U64ShlOr(acc, byte) == << byte >> \o SubSeq(acc, 1, 7)
RECURSIVE FoldRev(_, _)
FoldRev(bytes, acc) ==
    IF bytes = <<>> THEN acc
    ELSE FoldRev(SubSeq(bytes, 1, Len(bytes) - 1), U64ShlOr(acc, bytes[Len(bytes)]))

\* utils::read_zcash_script_i64 on a cursor at the start of script: an i64
\* (as its 8 bytes) or an error
ReadZcashScriptI64(script) ==
    LET first == ReadBytes(script, 0, 1, "Error reading first byte in i64 script hash")
    IN  IF first.tag = "Err" THEN first
        ELSE LET first_byte == first.value.v[1]
             IN  IF first_byte = OP_1_NEGATE THEN Ok(Fill(8, 255))
                 ELSE IF first_byte = OP_0 THEN Ok(U64FromNat(0))
                 ELSE IF first_byte >= OP_1 /\ first_byte <= OP_16
                   THEN Ok(U64FromNat(first_byte - (OP_1 - 1)))
                 ELSE LET num_bytes == ReadBytes(script, 1, first_byte,
                                                 "Error reading i64 script hash")
                      IN  IF num_bytes.tag = "Err" THEN num_bytes
                          ELSE Ok(FoldRev(num_bytes.value.v, U64FromNat(0)))

\* comparisons and casts of an i64 kept as 8 bytes
I64Negative(n) == n[8] >= 128
I64AboveU32Max(n) == ~I64Negative(n) /\ \E k \in 5..8 : n[k] # 0
I64AsU32(n) == U32FromLeBytes(SubSeq(n, 1, 4))
I64AsI32(n) == I32FromLeBytes(SubSeq(n, 1, 4))

GENESIS_TARGET_DIFFICULTY == 520617983

\* FullBlock::get_block_height, lines 275-285, for the number read
ClampHeight(height_num) ==
    IF I64Negative(height_num) THEN -1
    ELSE IF I64AboveU32Max(height_num) THEN -1
    ELSE IF I64AsU32(height_num) = U32FromLeBytes(U64FromNat(GENESIS_TARGET_DIFFICULTY))
      THEN 0
    ELSE I64AsI32(height_num)

\* FullTransaction::parse_from_slice(data, txid).  The wire form used here:
\* one byte giving the number of transparent inputs, then per input one byte
\* with the length of its script_sig and the script_sig itself.
RECURSIVE ReadInputs(_, _, _, _)
ReadInputs(data, pos, n, acc) ==
    IF n = 0 THEN Ok([v |-> acc, pos |-> pos])
    ELSE LET len == ReadBytes(data, pos, 1, "Error reading script_sig length")
         IN  IF len.tag = "Err" THEN len
             ELSE LET script == ReadBytes(data, len.value.pos, len.value.v[1],
                                          "Error reading script_sig")
                  IN  IF script.tag = "Err" THEN script
                      ELSE ReadInputs(data, script.value.pos, n - 1,
                                      Append(acc, [script_sig |-> script.value.v]))

FullTransactionParse(data, txid) ==
    IF txid = Absent
      THEN Err("InvalidData", "txid must be used for FullTransaction::parse_from_slice")
    ELSE LET count == ReadBytes(data, 0, 1, "Error reading transparent input count")
         IN  IF count.tag = "Err" THEN count
             ELSE LET inputs == ReadInputs(data, count.value.pos, count.value.v[1], <<>>)
                  IN  IF inputs.tag = "Err" THEN inputs
                      ELSE Ok([rem |-> Rest(data, inputs.value.pos),
                               tx |-> [tx_id |-> Value(txid),
                                       raw_bytes |-> SubSeq(data, 1, inputs.value.pos),
                                       raw_transaction |->
                                           [transparent_inputs |-> inputs.value.v]]])

\* the wire form of a transaction with the given script_sigs
RECURSIVE TxInputBytes(_)
TxInputBytes(scripts) ==
    IF scripts = <<>> THEN <<>>
    ELSE << Len(Head(scripts)) >> \o Head(scripts) \o TxInputBytes(Tail(scripts))
TxBytes(scripts) == << Len(scripts) >> \o TxInputBytes(scripts)

\* a panic of the thread running the parser
Panic(msg) == [tag |-> "Panic", error |-> None, value |-> msg]

\* FullBlock::parse_from_slice, line 221: txid.len() != tx_count as usize
CountMismatchIfFewer(txid_len, tx_count) == txid_len < tx_count
CountMismatch(txid_len, tx_count) == txid_len # tx_count

\* the headers, coinbase scripts and block inputs the parser is run on
HeaderOf(version, fill, time, solution) ==
    BlockHeaderData(version, Fill(32, fill), Fill(32, 1), Fill(32, 2), time,
                    << 255, 255, 7, 31 >>, Fill(32, 3), solution)
Headers ==
    { HeaderOf(version, fill, time, solution) :
        version \in {4, -2, I32Min}, fill \in {0, 255},
        time \in {U32(0, 0), U32(513, 65535)},
        solution \in {<<>>, <<7, 8>>, Fill(253, 9)} }
Header0 == HeaderOf(4, 0, U32(513, 65535), <<7, 8>>)

Scripts ==
    { <<>>, <<0>>, <<0, 7>>, <<79>>, <<80>>, <<81>>, <<96>>, <<97>>,
      <<1>>, <<1, 5>>, <<1, 200>>, <<2, 0, 1>>, <<3, 1, 2>>, <<3, 1, 2, 3>>,
      <<4, 1, 0, 0, 0, 99>>, <<4, 255, 255, 7, 31>>, <<4, 255, 255, 255, 127>>,
      <<4, 0, 0, 0, 128>>, <<4, 255, 255, 255, 255>>, <<5, 0, 0, 0, 0, 1>>,
      <<5, 255, 255, 7, 31, 1>>, <<8, 1, 0, 0, 0, 0, 0, 0, 0>>,
      <<8, 0, 0, 0, 0, 0, 0, 0, 128>>, <<9, 1, 0, 0, 0, 0, 0, 0, 0, 1>> }

BlockInput(src, data, txid) == [src |-> src, data |-> data, txid |-> txid]
BlockInputs ==
    \* every header, alone and followed by one transaction
    { BlockInput(Some(h), ToBinary(h) \o body, Some(<<11>>)) :
        h \in Headers, body \in {<<>>, <<1>> \o TxBytes(<< <<1, 5>> >>)} }
    \cup
    \* every coinbase script, with and without bytes after the transaction
    { BlockInput(Some(Header0), ToBinary(Header0) \o <<1>> \o TxBytes(<<s>>) \o rest,
                 Some(<<11>>)) : s \in Scripts, rest \in {<<>>, <<42>>} }
    \cup
    \* two transactions, a transaction without inputs; every count against
    \* every list of txids
    { BlockInput(Some(Header0), ToBinary(Header0) \o count \o txs \o rest, txid) :
        count \in {<<0>>, <<1>>, <<2>>, <<3>>, <<253, 2, 0>>, <<253, 0, 1>>, <<254, 0, 0, 1, 0>>},
        txs \in { <<>>, TxBytes(<< <<1, 5>>, <<0>> >>) \o TxBytes(<< <<2, 0, 1>> >>),
                  TxBytes(<<>>) \o TxBytes(<< <<1, 5>> >>), <<1, 4, 1>> },
        rest \in {<<>>, <<42>>},
        txid \in {Absent, Some(<<>>), Some(<<11>>), Some(<<11, 12>>), Some(<<11, 12, 13>>)} }
    \cup
    \* a header cut short
    { BlockInput(Absent, SubSeq(ToBinary(Header0), 1, k), Some(<<11>>)) :
        k \in {0, 3, 4, 36, 100, 139, 140, 141, 142} }

ParInitWith(in) ==
    /\ blk_src = in.src
    /\ blk_data = in.data
    /\ blk_txid = in.txid
    /\ bpc = "start"
    /\ blk_cursor = 0
    /\ blk_hdr = Absent
    /\ blk_txs = <<>>
    /\ blk_rem = <<>>
    /\ blk_num = NoResult
    /\ blk_height = Absent
    /\ blk_out = NoResult

\* the parser is not in use (the states of the other specifications)
ParIdle == ParInitWith(BlockInput(Absent, <<>>, Absent))

ParInit == \E in \in BlockInputs : ParInitWith(in)

\* parse_from_slice returns (Err through `?`, or a panic)
BlockReturns(out) ==
    /\ blk_out' = out
    /\ bpc' = "done"

\* FullBlock::parse_from_slice, lines 211-214
BlockStart ==
    /\ bpc = "start"
    /\ IF blk_txid = Absent
         THEN BlockReturns(Err("InvalidData",
                               "txid must be used for FullBlock::parse_from_slice"))
         ELSE /\ bpc' = "header"
              /\ UNCHANGED blk_out
    /\ UNCHANGED <<blk_src, blk_data, blk_txid, blk_cursor, blk_hdr, blk_txs, blk_rem,
                   blk_num, blk_height>>
    /\ UNCHANGED notPar

\* FullBlock::parse_from_slice, lines 216-218
BlockParseHeader ==
    /\ bpc = "header"
    /\ LET parsed == BlockHeaderDataParse(Rest(blk_data, blk_cursor), Absent)
       IN  IF parsed.tag = "Err"
             THEN /\ BlockReturns(parsed)
                  /\ UNCHANGED <<blk_hdr, blk_cursor, blk_rem>>
             ELSE /\ blk_hdr' = Some(parsed.value.hdr)
                  /\ blk_rem' = parsed.value.rem
                  /\ blk_cursor' = Len(blk_data) - Len(parsed.value.rem)
                  /\ bpc' = "count"
                  /\ UNCHANGED blk_out
    /\ UNCHANGED <<blk_src, blk_data, blk_txid, blk_txs, blk_num, blk_height>>
    /\ UNCHANGED notPar

\* FullBlock::parse_from_slice, lines 220-229
BlockReadCount ==
    /\ bpc = "count"
    /\ LET tx_count == CompactSizeRead(blk_data, blk_cursor)
       IN  IF tx_count.tag = "Err"
             THEN /\ BlockReturns(tx_count)
                  /\ UNCHANGED <<blk_cursor, blk_rem>>
           ELSE IF CountMismatch(Len(Value(blk_txid)), tx_count.value.v)
             THEN /\ BlockReturns(Err("InvalidData",
                        "number of txids ({}) does not match tx_count ({})"))
                  /\ blk_cursor' = tx_count.value.pos
                  /\ UNCHANGED blk_rem
           ELSE /\ blk_cursor' = tx_count.value.pos
                /\ blk_rem' = Rest(blk_data, tx_count.value.pos)
                /\ bpc' = "txs"
                /\ UNCHANGED blk_out
    /\ UNCHANGED <<blk_src, blk_data, blk_txid, blk_hdr, blk_txs, blk_num, blk_height>>
    /\ UNCHANGED notPar

\* FullBlock::parse_from_slice, lines 230-242: one round of the loop over txid
BlockParseTx ==
    /\ bpc = "txs"
    /\ Len(blk_txs) < Len(Value(blk_txid))
    /\ IF blk_rem = <<>>
         THEN /\ BlockReturns(Err("InvalidData",
                    "parsing block transactions: not enough data for transaction."))
              /\ UNCHANGED <<blk_txs, blk_rem>>
         ELSE LET txid_item == Value(blk_txid)[Len(blk_txs) + 1]
                  parsed == FullTransactionParse(Rest(blk_data, blk_cursor),
                                                 Some(<<txid_item>>))
              IN  IF parsed.tag = "Err"
                    THEN /\ BlockReturns(parsed)
                         /\ UNCHANGED <<blk_txs, blk_rem>>
                    ELSE /\ blk_txs' = Append(blk_txs, parsed.value.tx)
                         /\ blk_rem' = parsed.value.rem
                         /\ UNCHANGED <<bpc, blk_out>>
    /\ UNCHANGED <<blk_src, blk_data, blk_txid, blk_cursor, blk_hdr, blk_num, blk_height>>
    /\ UNCHANGED notPar

\* FullBlock::get_block_height, lines 269-274, called at line 243 when the loop
\* is over
BlockReadScript ==
    /\ bpc = "txs"
    /\ Len(blk_txs) = Len(Value(blk_txid))
    /\ IF blk_txs = <<>>
         THEN /\ BlockReturns(Panic("index out of bounds: transactions[0]"))
              /\ UNCHANGED blk_num
       ELSE IF blk_txs[1].raw_transaction.transparent_inputs = <<>>
         THEN /\ BlockReturns(Panic("index out of bounds: transparent_inputs[0]"))
              /\ UNCHANGED blk_num
       ELSE LET coinbase_script ==
                    blk_txs[1].raw_transaction.transparent_inputs[1].script_sig
                height_num == ReadZcashScriptI64(coinbase_script)
            IN  /\ blk_num' = height_num
                /\ IF height_num.tag = "Err"
                     THEN BlockReturns(height_num)
                     ELSE /\ bpc' = "clamp"
                          /\ UNCHANGED blk_out
    /\ UNCHANGED <<blk_src, blk_data, blk_txid, blk_cursor, blk_hdr, blk_txs, blk_rem,
                   blk_height>>
    /\ UNCHANGED notPar

\* FullBlock::get_block_height, lines 275-285
BlockClampHeight ==
    /\ bpc = "clamp"
    /\ blk_height' = Some(ClampHeight(blk_num.value))
    /\ bpc' = "hash"
    /\ UNCHANGED <<blk_src, blk_data, blk_txid, blk_cursor, blk_hdr, blk_txs, blk_rem,
                   blk_num, blk_out>>
    /\ UNCHANGED notPar

\* FullBlock::parse_from_slice, lines 244-256
BlockHashAndReturn ==
    /\ bpc = "hash"
    /\ BlockReturns(Ok([rem |-> blk_rem,
                        block |-> [hdr |-> [raw_block_header |-> Value(blk_hdr),
                                            cached_hash |-> GetBlockHash(Value(blk_hdr))],
                                   vtx |-> blk_txs,
                                   height |-> Value(blk_height)]]))
    /\ UNCHANGED <<blk_src, blk_data, blk_txid, blk_cursor, blk_hdr, blk_txs, blk_rem,
                   blk_num, blk_height>>
    /\ UNCHANGED notPar

ParNext ==
    \/ BlockStart
    \/ BlockParseHeader
    \/ BlockReadCount
    \/ BlockParseTx
    \/ BlockReadScript
    \/ BlockClampHeight
    \/ BlockHashAndReturn

(***************************************************************************)
(* Indexer::start: set_ctrlc registers the handler, then Indexer::new and   *)
(* serve run as above, for as long as the process lives.                   *)
(***************************************************************************)
Alive == exit_code = Absent

\* Indexer::start, lines 65-69: the online flag is true, the handler armed
StartInit ==
    /\ \E n4 \in NodeModes, n6 \in NodeModes, port \in Ports :
          /\ node4 = n4 /\ node6 = n6 /\ zebrad_port = port
    /\ ipc = "new"
    /\ check_result = NoResult
    /\ round = 0 /\ attempts4 = 0 /\ attempts6 = 0
    /\ last4 = NoResult /\ last6 = NoResult
    /\ zebrad_uri = NoUri
    /\ new_result = NoResult
    /\ exit_code = Absent
    /\ indexer_status = Absent
    /\ server_status = <<>>
    /\ server = None
    /\ online = TRUE
    /\ tpc = "none"
    /\ server_task = "none"
    /\ serve_result = NoResult
    /\ hpc = "armed"

\* set_ctrlc handler, line 194: online.store(false, SeqCst), run on the
\* handler thread when the interrupt signal arrives
CtrlcStoreOnline ==
    /\ Alive
    /\ hpc = "armed"
    /\ online' = CtrlcStore(online)
    /\ hpc' = "stored"
    /\ UNCHANGED <<node4, node6, zebrad_port, ipc, check_result, probeVars, new_result,
                   exit_code, indexer_status, server_status, server, tpc, server_task,
                   serve_result>>
    /\ UNCHANGED <<connVars, srvVars, parVars, node_user, node_password, wire>>

\* set_ctrlc handler, line 195: process::exit(0)
CtrlcExit ==
    /\ Alive
    /\ hpc = "stored"
    /\ exit_code' = Some(0)
    /\ hpc' = "exited"
    /\ UNCHANGED <<node4, node6, zebrad_port, ipc, check_result, probeVars, new_result,
                   indexer_status, server_status, server, online, tpc, server_task,
                   serve_result>>
    /\ UNCHANGED <<connVars, srvVars, parVars, node_user, node_password, wire>>

StartNext ==
    \/ Alive /\ \E res \in {Ok("()"), Err("ConfigError", "check_config")} : CheckConfig(res)
    \/ Alive /\ ProbeTryIpv4
    \/ Alive /\ \E o \in AttemptOutcomes("flaky") : ProbeIpv4Result(o)
    \/ Alive /\ ProbeTryIpv6
    \/ Alive /\ \E o \in AttemptOutcomes("flaky") : ProbeIpv6Result(o)
    \/ Alive /\ ProbeNextRound
    \/ Alive /\ ProbeExit
    \/ Alive /\ StoreStarting
    \/ Alive /\ \E res \in {Ok("Server"), Err("ServerError", "spawn")} : SpawnServer(res)
    \/ Alive /\ Serve
    \/ Alive /\ TaskStartServer
    \/ Alive /\ TaskStoreWorking
    \/ Alive /\ TaskLoopCheck
    \/ Alive /\ TaskTick
    \/ Alive /\ TaskShutdownComponents
    \/ Alive /\ TaskAwaitServer
    \/ Alive /\ TaskStoreFinal
    \/ Alive /\ ServerTaskEnds
    \/ CtrlcStoreOnline
    \/ CtrlcExit

(***************************************************************************)
(* Specifications.                                                         *)
(*   Spec    - callers of one JsonRpcConnector; the indexer is not started *)
(*   SpecIdx - Indexer::new, the node probe, shutdown and serve; the       *)
(*             connector is idle                                           *)
(*   SpecStart - Indexer::start: the same with the Ctrl-C handler armed    *)
(*   SpecPar - FullBlock::parse_from_slice on a set of block inputs        *)
(*   SpecSrv - the two ingestors, the queue and the ProxyServer under one  *)
(*             online flag; SpecSrvFair adds the ticking intervals         *)
(*   SpecIdxFair - SpecIdx with every step of the probe taken in time      *)
(*   SpecAuth - the probe and then the calls of one holder of the          *)
(*             connector, for every way the credentials can be given       *)
(***************************************************************************)
Init == ConnInit /\ IdxInitWith("up", "up", 8232) /\ SrvIdle /\ ParIdle /\ AuthInitWith(Absent, Absent)
Next == ConnNext
Spec == Init /\ [][Next]_vars

ConnIdle == ConnInit /\ prior = 0
InitIdx == ConnIdle /\ IdxInit /\ SrvIdle /\ ParIdle /\ AuthInitWith(Absent, Absent)
NextIdx == IdxNext
SpecIdx == InitIdx /\ [][NextIdx]_vars

InitStart == ConnIdle /\ StartInit /\ SrvIdle /\ ParIdle /\ AuthInitWith(Absent, Absent)
NextStart == StartNext
SpecStart == InitStart /\ [][NextStart]_vars

InitSrv == ConnIdle /\ IdxInitWith("up", "up", 8232) /\ SrvInit /\ ParIdle /\ AuthInitWith(Absent, Absent)
NextSrv == SrvNext
SpecSrv == InitSrv /\ [][NextSrv]_vars

InitPar == ConnIdle /\ IdxInitWith("up", "up", 8232) /\ SrvIdle /\ ParInit /\ AuthInitWith(Absent, Absent)
NextPar == ParNext
SpecPar == InitPar /\ [][NextPar]_vars

\* the probe against an endpoint pair that is up or down, then the calls of one
\* holder of the connector built for the URI it returned, for every way the
\* credentials can be given
\* a holder of the connector built for the returned URI calls send_request
CallNode(in) ==
    /\ zebrad_uri # NoUri
    /\ SendRequest(1, in)

InitAuth ==
    /\ ConnIdle
    /\ \E n4 \in {"up", "down"}, n6 \in {"up", "down"} : IdxInitWith(n4, n6, 8232)
    /\ SrvIdle
    /\ ParIdle
    /\ \E user \in {Absent, Some("user")}, password \in {Absent, Some("password")} :
          AuthInitWith(user, password)
NextAuth ==
    \/ CheckConfig(Ok("()"))
    \/ ProbeTryIpv4
    \/ \E o \in AttemptOutcomes("flaky") : ProbeIpv4Result(o)
    \/ ProbeTryIpv6
    \/ \E o \in AttemptOutcomes("flaky") : ProbeIpv6Result(o)
    \/ ProbeNextRound
    \/ ProbeExit
    \/ \E in \in Inputs : CallNode(in)
    \/ IssueHttp(1)
    \/ \E resp \in Responses : ReceiveResponse(1, resp)
    \/ WakeUp(1)
    \/ TakeResult(1)
SpecAuth == InitAuth /\ [][NextAuth]_vars

\* the probe is awaited by Indexer::new: each of its steps is taken once it can
\* be (an attempt ends as soon as the node lets it end, sleeps end)
SpecIdxFair ==
    /\ SpecIdx
    /\ WF_vars(ProbeTryIpv4)
    /\ WF_vars(\E o \in AttemptOutcomes("flaky") : ProbeIpv4Result(o))
    /\ WF_vars(ProbeTryIpv6)
    /\ WF_vars(\E o \in AttemptOutcomes("flaky") : ProbeIpv6Result(o))
    /\ WF_vars(ProbeNextRound)
    /\ WF_vars(ProbeExit)

\* the 50 ms interval of an ingestor keeps ticking while its task runs
\* and the ProxyServer task, once it is at its loop test, takes it
SpecSrvFair ==
    /\ SpecSrv
    /\ \A i \in Ingestors : WF_vars(IngTick(i))
    /\ WF_vars(ProxyCheckOnline)

(***************************************************************************)
(* Properties of send_request.                                             *)
(***************************************************************************)
\* TRUE iff the first n responses of caller c's call all held the sentinel
FirstBusy(c, n) == Len(hist[c]) >= n /\ \A i \in 1..n : hist[c][i]

\* the n-th followed call is among the first 2^31 calls made on the connector,
\* i.e. the counter has not yet passed I32Max when it takes its id
BeforeWrap(n) == n - 1 <= I32Max - prior

\* prior + n in two's complement 32-bit arithmetic (0 <= prior <= I32Max, n >= 0)
WrapI32(n) ==
    IF n <= I32Max - prior THEN prior + n ELSE I32Min + (n - (I32Max - prior) - 1)

\* C1: one send_request call issues the HTTP request at most 5 times, however
\* many consecutive responses hold "Work queue depth exceeded".
C1_AtMostFiveRequests ==
    \A c \in Callers : Len(sent[c]) <= 5 /\ attempts[c] <= 5

C1_Witness ==
    \E c \in Callers : Len(sent[c]) = 5 /\ FirstBusy(c, 5)

\* C2: when the first 5 responses of a call all hold the sentinel, the call has
\* returned Err(CustomError("Work queue depth exceeded after multiple
\* attempts")) right after the 5th response (no 6th request, no 6th response),
\* and its result is not Ok.
C2_FifthBackpressureFails ==
    \A c \in Callers :
        FirstBusy(c, 5) =>
            /\ pc[c] = "done"
            /\ result[c] = CustomError("Work queue depth exceeded after multiple attempts")
            /\ result[c].tag # "Ok"
            /\ Len(hist[c]) = 5
            /\ Len(sent[c]) = 5

C2_Witness ==
    \E c \in Callers : FirstBusy(c, 5) /\ pc[c] = "done" /\ last[c].json = "ok"

\* C3: when the first k responses (0 <= k <= 4) hold the sentinel and the
\* (k+1)-th is a well-formed response without the sentinel and without an error
\* field, the call has returned Ok(result of that response) and has issued
\* exactly k+1 HTTP requests.
C3_SuccessAfterRetries ==
    \A c \in Callers : \A k \in 0..4 :
        ( /\ Len(hist[c]) = k + 1
          /\ FirstBusy(c, k)
          /\ ~hist[c][k + 1]
          /\ last[c].kind = "body"
          /\ last[c].json = "ok" )
        => /\ pc[c] = "done"
           /\ result[c] = Ok(last[c].result)
           /\ Len(sent[c]) = k + 1

C3_Witness ==
    \E c \in Callers :
        /\ Len(hist[c]) = 5 /\ FirstBusy(c, 4) /\ ~hist[c][5]
        /\ last[c].json = "ok" /\ last[c].kind = "body"
        /\ result[c] = Ok("r2") /\ Len(sent[c]) = 5

\* C4: a response that is a failure other than the sentinel (transport failure,
\* undecodable body, error field present) ends the call with Err right after
\* that attempt, with no further HTTP request; Ok(result) is returned only for
\* a decoded response without an error field.
C4_OtherErrorsImmediate ==
    \A c \in Callers :
        /\ ( /\ Len(hist[c]) > 0
             /\ ~hist[c][Len(hist[c])]
             /\ (last[c].kind # "body" \/ last[c].json \in {"err", "bad"}) )
           => /\ pc[c] = "done"
              /\ result[c].tag = "Err"
              /\ Len(sent[c]) = Len(hist[c])
        /\ result[c].tag = "Ok"
           => /\ last[c].kind = "body"
              /\ last[c].json = "ok"
              /\ result[c].value = last[c].result

C4_Witness ==
    \E c \in Callers :
        /\ Len(hist[c]) = 3 /\ FirstBusy(c, 2) /\ ~hist[c][3]
        /\ last[c].kind = "connect_error"
        /\ pc[c] = "done" /\ result[c].tag = "Err"

\* C5 (as stated): ids are strictly increasing in the order they are taken, and
\* no two calls obtain the same id.
C5_StrictlyIncreasing ==
    \A i, j \in 1..Len(issued) : i < j => issued[i] < issued[j]

\* C5 (amended): ids are pairwise distinct, calls in flight at the same time
\* hold different ids, and among the first 2^31 calls of the connector a call
\* that takes its id later obtains a strictly larger id.
C5_IncreasingUntilWrap ==
    /\ \A i, j \in 1..Len(issued) : i < j => issued[i] # issued[j]
    /\ \A i, j \in 1..Len(issued) : (i < j /\ BeforeWrap(j)) => issued[i] < issued[j]
    /\ \A c, d \in Callers :
         (c # d /\ pc[c] # "idle" /\ pc[d] # "idle") => req[c].id # req[d].id

C5_Witness ==
    /\ Len(issued) = 3
    /\ prior = 0
    /\ \A c \in Callers : pc[c] \in {"await", "sleep"}

\* C6: the counter of a new connector is 0 (the first call uses id 0), every
\* call advances it by exactly 1, and after I32Max it continues at I32Min
\* (32-bit two's complement) and the call proceeds as usual.
C6_CounterStartsAtZeroAndWraps ==
    /\ (prior = 0 /\ Len(issued) >= 1) => issued[1] = 0
    /\ \A k \in 1..Len(issued) : issued[k] = WrapI32(k - 1)
    /\ id_counter = WrapI32(Len(issued))
    /\ \A c \in Callers : pc[c] # "idle" => req[c].id \in {issued[k] : k \in 1..Len(issued)}

C6_Witness ==
    /\ Len(issued) = 3
    /\ issued[2] = I32Max
    /\ issued[3] = I32Min
    /\ \E c \in Callers : req[c].id = I32Min /\ result[c].tag = "Ok"

(***************************************************************************)
(* Properties of the node probe and of the Indexer (under SpecIdx).        *)
(***************************************************************************)
ProbeReturned == zebrad_uri # NoUri

\* C7: in every round IPv4 is tried first; a successful IPv4 attempt returns
\* http://127.0.0.1:<port> without trying IPv6; IPv6 is tried only after the
\* IPv4 attempt of the same round failed, and http://[::1]:<port> is returned
\* when it succeeds; a node that is up on IPv4 yields the IPv4 URI in round 1.
C7_Ipv4FirstThenIpv6 ==
    /\ ipc = "probe_v4_wait" => (attempts4 = round + 1 /\ attempts6 = round)
    /\ ipc = "probe_v6" =>
         (last4.tag = "Err" /\ attempts4 = round + 1 /\ attempts6 = round)
    /\ ipc = "probe_v6_wait" =>
         (last4.tag = "Err" /\ attempts4 = round + 1 /\ attempts6 = round + 1)
    /\ last4.tag = "Ok" =>
         (zebrad_uri = Ipv4Uri(zebrad_port) /\ attempts4 = round + 1 /\ attempts6 = round)
    /\ last6.tag = "Ok" =>
         (zebrad_uri = Ipv6Uri(zebrad_port) /\ last4.tag = "Err" /\ attempts6 = round + 1)
    /\ ProbeReturned =>
         \/ zebrad_uri = Ipv4Uri(zebrad_port) /\ last4.tag = "Ok"
         \/ zebrad_uri = Ipv6Uri(zebrad_port) /\ last6.tag = "Ok"
    /\ (node4 = "up" /\ attempts4 > 0 /\ ipc # "probe_v4_wait") =>
         (zebrad_uri = Ipv4Uri(zebrad_port) /\ round = 0 /\ attempts4 = 1 /\ attempts6 = 0)

C7_Witness ==
    /\ node4 = "up" /\ node6 = "down" /\ zebrad_port = 18232
    /\ zebrad_uri = Uri("127.0.0.1", 18232)
    /\ round = 0 /\ attempts6 = 0
    /\ ipc = "constructed"

\* C8 (as stated): after 3 rounds in which both attempts failed the probe has
\* reported an error to Indexer::new (which returned it), the process ended
\* with a non-zero status and no server was spawned.
C8_ReportsToIndexer ==
    ipc = "exited" =>
        /\ new_result.tag = "Err"
        /\ exit_code # Absent /\ Value(exit_code) # 0
        /\ server = None /\ server_task = "none"

\* C8 (amended): the probe makes at most 3 rounds (3 IPv4 and 3 IPv6 attempts);
\* when the 3 rounds failed it ends the process itself with exit status 1,
\* Indexer::new never gets a result from it and no server is ever spawned.
C8_ProbeExhaustedExits ==
    /\ round <= 3 /\ attempts4 <= 3 /\ attempts6 <= 3
    /\ round = 3 =>
         /\ ipc \in {"probe_exit", "exited"}
         /\ attempts4 = 3 /\ attempts6 = 3
         /\ last4.tag = "Err" /\ last6.tag = "Err"
         /\ ~ProbeReturned
         /\ new_result = NoResult
         /\ server = None /\ server_task = "none" /\ tpc = "none"
    /\ ipc = "exited" => (round = 3 /\ exit_code = Some(1))
    /\ exit_code # Absent => (ipc = "exited" /\ Value(exit_code) # 0)

C8_Witness ==
    /\ ipc = "exited" /\ exit_code = Some(1)
    /\ attempts4 = 3 /\ attempts6 = 3
    /\ last4.error = "TimeoutError" /\ last6.error = "HyperError"

\* C9: the server is spawned (and anything runs behind it) only after
\* check_config succeeded and the probe returned a URI; when check_config
\* fails or the probe fails, no server is spawned and the indexer status cell
\* never holds Starting (0).
C9_ServerOnlyAfterConfigAndProbe ==
    /\ (ipc = "spawn" \/ server # None \/ server_task # "none" \/ tpc # "none"
          \/ new_result.tag = "Ok")
       => (check_result.tag = "Ok" /\ ProbeReturned)
    /\ (check_result.tag = "Err" \/ (check_result.tag = "Ok" /\ round = ProbeRounds))
       => /\ server = None /\ server_task = "none" /\ tpc = "none"
          /\ indexer_status \in {Absent, Some(5)}
          /\ ipc \in {"failed", "probe_exit", "exited"}

C9_Witness ==
    /\ server_task = "running"
    /\ check_result.tag = "Ok"
    /\ zebrad_uri = Ipv6Uri(zebrad_port)
    /\ round = 2

\* C10: Closing is terminal: once the indexer status cell holds Closing (4), no
\* step stores Spawning, Starting, Listening or Working into it.
C10_ClosingTerminal ==
    [][ indexer_status = Some(4) =>
          StatusType(Value(indexer_status')) \notin
              {"Spawning", "Starting", "Listening", "Working"} ]_vars

\* C11: the shutdown cascade runs in order: the indexer status is Closing (4)
\* before the server status is stored, the server status is Closing (4) before
\* the server handle is awaited, and the final indexer status and Ok(()) come
\* only after the server task has finished.
C11_CascadeInOrder ==
    /\ tpc = "shutdown_components"
         => (indexer_status = Some(4) /\ server_status = <<>>)
    /\ tpc = "await_server"
         => (indexer_status = Some(4) /\ server_status = <<4>>)
    /\ tpc = "store_final"
         => (indexer_status = Some(4) /\ server_status = <<4>>
               /\ server_task = "finished")
    /\ serve_result.tag = "Ok"
         => (tpc = "returned" /\ indexer_status = Some(5) /\ server_status = <<4>>
               /\ server_task = "finished")
    /\ (server_status # <<>> \/ (indexer_status = Some(5) /\ ipc = "serving"))
         => tpc \in {"await_server", "store_final", "returned"}

C11_Witness ==
    /\ serve_result = Ok("()")
    /\ ~online
    /\ server_status = <<4>>
    /\ server_task = "finished"

\* C12: when the cascade has finished, the value in the indexer status cell
\* decodes as Offline and differs from the value (5) the cell was created with.
C12_ReportsOffline ==
    serve_result.tag = "Ok"
        => (StatusType(Value(indexer_status)) = "Offline" /\ indexer_status # Some(5))

\* C13: after Indexer::shutdown() the online flag is false (here: in the state
\* shutdown() leaves behind, before serve() spawned any task).
C13_ShutdownClearsOnline ==
    (ipc = "constructed" /\ indexer_status = Some(4)) => ~online

\* C14: the Ctrl-C handler stores false into the online flag before it exits
\* the process with code 0: the process never exits from the handler while the
\* flag reads true, and exit code 0 comes from the handler only.
C14_ClearsOnlineBeforeExit ==
    /\ hpc = "exited" => (exit_code = Some(0) /\ ~online)
    /\ exit_code = Some(0) => (hpc = "exited" /\ ~online)
    /\ hpc = "stored" => (~online /\ exit_code # Some(0))
    /\ hpc = "armed" => (online /\ exit_code # Some(0))

C14_Witness ==
    /\ hpc = "exited"
    /\ exit_code = Some(0)
    /\ ~online
    /\ tpc = "tick"
    /\ indexer_status = Some(2)

\* C15: one online flag for all components: once the flag handed to the entry
\* point is false, the cell held by the ProxyClient reads false too.
C15_OneSharedFlag ==
    (client_flag # Absent /\ ~online) => Value(client_flag) = FALSE

\* C16: an ingestor in its serve loop that takes a step (tick, connection or
\* message) while the online flag is false or its status is Closing returns
\* Ok(()) in that step and enqueues nothing; and once the flag is false an
\* ingestor in its loop does return, by its next tick at the latest.
C16_StopsAtNextTick ==
    /\ [][ \A i \in Ingestors :
             ( /\ ing_pc[i] = "loop"
               /\ (~online \/ ing_status[i] = "Closing")
               /\ (ing_pc'[i] # ing_pc[i] \/ last_in'[i] # last_in[i]) )
             => ( /\ ing_pc'[i] = "returned"
                  /\ ing_result'[i] = Ok("()")
                  /\ queue' = queue ) ]_vars
    /\ \A i \in Ingestors :
          (ing_pc[i] = "loop" /\ ~online) ~> (ing_pc[i] = "returned")

C16_Witness ==
    /\ ~online
    /\ ing_pc["tcp"] = "returned" /\ ing_result["tcp"] = Ok("()")
    /\ last_in["tcp"].outcome = "shutdown"
    /\ ing_pc["nym"] = "returned" /\ ing_result["nym"] = Ok("()")
    /\ last_in["nym"] = NoInbound
    /\ queue = <<>>

\* C17: an ingestor's status never goes from Closing back to Listening, and
\* it is Offline once the serve task has returned.
C17_StatusOnlyForward ==
    /\ [][ \A i \in Ingestors :
             ing_status[i] = "Closing" => ing_status'[i] # "Listening" ]_vars
    /\ [](\A i \in Ingestors : ing_pc[i] = "returned" => ing_status[i] = "Offline")

\* C18: a connection whose try_send returned QueueFull received a "resource
\* exhausted" response; its request is not in the queue and the ingestor did
\* not fail on it.
C18_QueueFullAnswered ==
    last_in["tcp"].outcome = "QueueFull"
        => /\ last_in["tcp"].reply = "resource exhausted"
           /\ \A k \in 1..Len(queue) : queue[k].conn # last_in["tcp"].conn
           /\ ing_result["tcp"].tag # "Err"

\* C19: when try_send reported the queue closed, the Tcp ingestor has left its
\* accept loop: the serve task has returned.
C19_ClosedExitsLoop ==
    last_in["tcp"].outcome = "Closed" => ing_pc["tcp"] = "returned"

\* C20: a mix-network message without payload yields EmptyMessageError, one
\* without reply tag yields EmptyRecipientTagError, and nothing is enqueued
\* for either.
C20_PayloadAndTagRequired ==
    /\ (last_in["nym"].event \in {"empty_list", "empty_payload", "empty_payload_no_tag"}
          /\ last_in["nym"].outcome # "shutdown")
         => /\ last_in["nym"].outcome \in {"EmptyMessageError", "EmptyRecipientTagError"}
            /\ ing_result["nym"].tag = "Err"
    /\ (last_in["nym"].event = "no_tag" /\ last_in["nym"].outcome # "shutdown")
         => last_in["nym"].outcome = "EmptyRecipientTagError"
    /\ last_in["nym"].event = "empty_payload" /\ last_in["nym"].outcome # "shutdown"
         => last_in["nym"].outcome = "EmptyMessageError"

\* the request an ingestor makes of the inbound event numbered conn
RequestOf(i, conn) ==
    [transport |-> IF i = "tcp" THEN "Grpc" ELSE "Nym", conn |-> conn]

IsGrpc(r) == r.transport = "Grpc"
IsNym(r) == r.transport = "Nym"

\* C21: a try_send on a queue whose length equals its capacity returns
\* QueueFull carrying the same request, the ingestor goes on at once (it was
\* not blocked), and the queue contents and length are unchanged.
C21_FullQueueUnchanged ==
    [][ \A i \in Ingestors :
          ( /\ Len(queue) = max_queue_size
            /\ last_in'[i] # last_in[i]
            /\ last_in'[i].outcome \in {"Ok", "QueueFull", "Closed"} )
          => ( /\ last_in'[i].outcome = "QueueFull"
               /\ TrySend(queue, queue_open, RequestOf(i, inbound')).returned
                     = Some(RequestOf(i, inbound'))
               /\ queue' = queue
               /\ Len(queue') = max_queue_size
               /\ enqueued' = enqueued
               /\ ing_pc'[i] = "loop" ) ]_vars

C21_Witness ==
    /\ last_in["tcp"] = Handled(3, "stream", "QueueFull", None)
    /\ queue = <<NewFromGrpc(1), NewFromGrpc(2)>>
    /\ Len(queue) = max_queue_size
    /\ received = <<>>

\* C22: the queue never reorders: what the workers received, followed by what
\* is still queued, is what try_send accepted, in the order it was accepted,
\* for the queue as a whole and for the requests of each ingestor; no request
\* is received twice.
C22_QueueIsFifo ==
    /\ received \o queue = enqueued
    /\ SelectSeq(received, IsGrpc) \o SelectSeq(queue, IsGrpc) = SelectSeq(enqueued, IsGrpc)
    /\ SelectSeq(received, IsNym) \o SelectSeq(queue, IsNym) = SelectSeq(enqueued, IsNym)
    /\ \A j, k \in 1..Len(received) : j # k => received[j] # received[k]

\* two try_sends by the Tcp ingestor filled the queue (the third was refused),
\* then both requests were received
C22_Witness ==
    /\ last_in["tcp"] = Handled(3, "stream", "QueueFull", None)
    /\ enqueued = <<NewFromGrpc(1), NewFromGrpc(2)>>
    /\ received = <<NewFromGrpc(1), NewFromGrpc(2)>>
    /\ queue = <<>>

\* C23: every block that FullBlock::parse_from_slice returns carries as
\* cached_hash the SHA-256 of the SHA-256 of to_binary() of its parsed header.
C23_HashIsDoubleSha256 ==
    blk_out.tag = "Ok" =>
        LET block == blk_out.value.block
        IN  block.hdr.cached_hash = Sha256(Sha256(ToBinary(block.hdr.raw_block_header)))

C23_Witness ==
    /\ bpc = "done"
    /\ blk_out.tag = "Ok"
    /\ blk_out.value.block.hdr.raw_block_header.solution = Fill(253, 9)
    /\ blk_out.value.block.hdr.cached_hash = GetBlockHash(Value(blk_src))

\* the header step of the parser has run on an input serialized from a header
HeaderStepTaken == blk_src # Absent /\ blk_txid # Absent /\ bpc \notin {"start", "header"}

CountReadAndDiffers ==
    /\ blk_hdr # Absent
    /\ blk_txid # Absent
    /\ bpc # "count"
    /\ LET tx_count == CompactSizeRead(blk_data, Len(ToBinary(Value(blk_hdr))))
       IN  tx_count.tag = "Ok" /\ tx_count.value.v # Len(Value(blk_txid))

\* C25 as stated: when the transaction count read differs from the number of
\* txids, the parser fails with InvalidData("txid count mismatch"), returns
\* no block and parses no transaction.
C25_FailsWithTxidCountMismatch ==
    CountReadAndDiffers =>
        /\ bpc = "done"
        /\ blk_out = Err("InvalidData", "txid count mismatch")
        /\ blk_txs = <<>>

\* C25: when the transaction count read differs from the number of txids, the
\* parser fails with InvalidData carrying the message "number of txids ({})
\* does not match tx_count ({})", returns no block and parses no transaction.
C25_FailsWithCountsInMessage ==
    CountReadAndDiffers =>
        /\ bpc = "done"
        /\ blk_out = Err("InvalidData", "number of txids ({}) does not match tx_count ({})")
        /\ blk_txs = <<>>
        /\ blk_height = Absent

C25_Witness ==
    /\ CountReadAndDiffers
    /\ CompactSizeRead(blk_data, Len(ToBinary(Value(blk_hdr)))).value.v = 1
    /\ Value(blk_txid) = <<11, 12>>
    /\ blk_out.tag = "Err"
    /\ blk_out.error = "InvalidData"

\* the bytes the transactions of a block were parsed from, one after another
RECURSIVE RawBytesOf(_)
RawBytesOf(txs) ==
    IF txs = <<>> THEN <<>> ELSE Head(txs).raw_bytes \o RawBytesOf(Tail(txs))

\* C26: a returned block holds one transaction per txid, the i-th with the
\* i-th txid as context and parsed from the bytes right after the (i-1)-th,
\* and the remainder returned is the input after the last transaction.
C26_TransactionsConsecutive ==
    blk_out.tag = "Ok" =>
        LET vtx == blk_out.value.block.vtx
        IN  /\ Len(vtx) = Len(Value(blk_txid))
            /\ \A i \in 1..Len(vtx) : vtx[i].tx_id = << Value(blk_txid)[i] >>
            /\ RawBytesOf(vtx) \o blk_out.value.rem = Rest(blk_data, blk_cursor)

\* the coinbase script has been handed to read_zcash_script_i64
ScriptRead == blk_num # NoResult
CoinbaseScript == blk_txs[1].raw_transaction.transparent_inputs[1].script_sig

\* little-endian bytes without their high zero bytes: equal for two byte
\* strings exactly when they are the same unsigned number
RECURSIVE Magnitude(_)
Magnitude(bytes) ==
    IF bytes = <<>> THEN <<>>
    ELSE IF bytes[Len(bytes)] = 0 THEN Magnitude(SubSeq(bytes, 1, Len(bytes) - 1))
    ELSE bytes

\* C27: the decoder gives 0 for 0x00, -1 for 0x4F, 1..16 for 0x51..0x60, and
\* for any other first byte n the unsigned little-endian number made of the
\* next n bytes, or an error when fewer than n bytes follow.
C27_DecodesScriptNumber ==
    ScriptRead /\ CoinbaseScript # <<>> =>
        LET n == CoinbaseScript[1]
            following == Tail(CoinbaseScript)
        IN  IF n = 0 THEN blk_num = Ok(U64FromNat(0))
            ELSE IF n = 79 THEN blk_num = Ok(Fill(8, 255))
            ELSE IF n \in 81..96 THEN blk_num = Ok(U64FromNat(n - 80))
            ELSE IF Len(following) < n THEN blk_num.tag = "Err"
            ELSE /\ blk_num.tag = "Ok"
                 /\ ~I64Negative(blk_num.value)
                 /\ Magnitude(blk_num.value) = Magnitude(SubSeq(following, 1, n))

\* C28: a coinbase script encoding h with 1 <= h <= u32::MAX gives height h,
\* the number 520617983 gives 0, a negative number or one above u32::MAX
\* gives -1.
C28_HeightClamped ==
    blk_height # Absent =>
        LET h == blk_num.value
            height == Value(blk_height)
        IN  IF I64Negative(h) \/ Magnitude(h) # Magnitude(SubSeq(h, 1, 4)) THEN height = -1
            ELSE IF h = U64FromNat(520617983) THEN height = 0
            ELSE IF h = U64FromNat(0) THEN TRUE
            ELSE /\ height >= 1
                 /\ I32ToLeBytes(height) = SubSeq(h, 1, 4)

\* C29: every transport-level failure of the client (connection or HTTP
\* failure, request timeout) maps to "unavailable" and every serialization or
\* deserialization failure to "invalid argument"; here for the errors of the
\* probe attempts.
C29_TransportIsUnavailable ==
    \A e \in {last4, last6} :
        e.tag = "Err" =>
            /\ e.error \in {"HyperError", "TimeoutError"} => ToGrpcStatus(e) = "unavailable"
            /\ e.error = "SerdeJsonError" => ToGrpcStatus(e) = "invalid_argument"

\* C30: the error send_request returns when the backpressure sentinel came
\* back on all 5 attempts maps to "unavailable".
C30_BackpressureIsUnavailable ==
    \A c \in Callers :
        (result[c] = CustomError(BackpressureMsg) /\ attempts[c] = max_attempts)
            => ToGrpcStatus(result[c]) = "unavailable"

\* C33: every attempt of one send_request call issues the request built at
\* the start of the call (same id, method and params); the id counter has
\* advanced once per call started, whatever the number of retries; and the
\* attempt counter of a call counts the attempts of that call only.
C33_RetriesReissueSameRequest ==
    /\ \A c \in Callers :
          /\ \A k \in 1..Len(sent[c]) : sent[c][k] = req[c]
          /\ pc[c] # "idle" => \E n \in 1..Len(issued) : issued[n] = req[c].id
          /\ attempts[c] \in {Len(sent[c]), Len(sent[c]) + 1}
          /\ attempts[c] # Len(sent[c]) =>
                (pc[c] = "done" /\ result[c] = Err("SerdeJsonError", "request"))
          /\ Len(sent[c]) = Len(hist[c]) + (IF pc[c] = "await" THEN 1 ELSE 0)
    /\ id_counter = WrapI32(Len(issued))

C33_Witness ==
    /\ attempts[1] = 3 /\ Len(sent[1]) = 3 /\ pc[1] = "await"
    /\ sent[1] = << req[1], req[1], req[1] >>
    /\ attempts[2] = 1 /\ pc[2] = "sleep"
    /\ req[1].id # req[2].id
    /\ Len(issued) = 2

\* C34: a response whose body holds "Work queue depth exceeded" is never
\* decoded: whatever JSON it is, the call goes to sleep for a retry or, on the
\* 5th attempt, returns the backpressure error; it never returns Ok, an RPC
\* error or a decoding error for it.
C34_SentinelCheckedBeforeDecoding ==
    \A c \in Callers :
        (last[c].kind = "body" /\ last[c].sentinel) =>
            /\ hist[c][Len(hist[c])]
            /\ pc[c] \in {"sleep", "loop", "await", "done"}
            /\ pc[c] # "done" => (result[c] = NoResult /\ Len(hist[c]) < max_attempts)
            /\ pc[c] = "done" =>
                 /\ result[c] = CustomError("Work queue depth exceeded after multiple attempts")
                 /\ attempts[c] = max_attempts
                 /\ Len(hist[c]) = max_attempts

C34_Witness ==
    \E c \in Callers :
        /\ last[c] = [kind |-> "body", sentinel |-> TRUE, json |-> "ok", result |-> "r1"]
        /\ pc[c] = "sleep"
        /\ attempts[c] = 2
        /\ hist[c] = << TRUE, TRUE >>

\* C35: FullBlock::parse_from_slice never panics: with a transaction count of
\* 0 and no txid, or a first transaction without a transparent input, it
\* returns an Err.
C35_NoPanicOnInput ==
    /\ blk_out.tag # "Panic"
    /\ (bpc = "done" /\ blk_txid = Some(<<>>)) => blk_out.tag = "Err"

\* the probe is running
InProbe == ipc \in {"probe_v4", "probe_v4_wait", "probe_v6", "probe_v6_wait",
                    "probe_sleep", "probe_exit"}

\* C32: a failed attempt, a timed-out one included, only moves the probe on
\* in its IPv4, IPv6, wait schedule, and the probe always ends: whatever the
\* node does, it returns a URI or ends the process after the third round.
C32_ProbeAlwaysTerminates ==
    /\ [][ (InProbe /\ last4' # last4 /\ last4'.tag = "Err") => ipc' = "probe_v6" ]_vars
    /\ [][ (InProbe /\ last6' # last6 /\ last6'.tag = "Err") => ipc' = "probe_sleep" ]_vars
    /\ InProbe ~> (ProbeReturned \/ ipc = "exited")

\* C36: a malformed mix-network message (empty list, no reply tag, a payload
\* that is no request) leaves the Nym ingestor in its serve loop, where a later
\* valid message is still enqueued.
C36_MalformedMessageSurvived ==
    [][ ( /\ last_in'["nym"] # last_in["nym"]
          /\ last_in'["nym"].event \in {"empty_list", "no_tag", "bad_payload"}
          /\ last_in'["nym"].outcome # "shutdown" )
        => ( /\ ing_pc'["nym"] = "loop"
             /\ ing_result'["nym"] = NoResult ) ]_vars

\* C37: the ProxyServer::serve task returns Ok(()) only on reading the online
\* flag as false, returns the first Err of the tonic server, starts the server
\* again when it returned Ok and the flag is still true, and ends eventually
\* once the flag is false.
C37_ServeLoopFollowsOnline ==
    /\ [][ (proxy_result' # proxy_result /\ proxy_result'.tag = "Ok")
              => (ppc = "check" /\ ~online) ]_vars
    /\ [][ (ppc = "serving" /\ ppc' # ppc)
              => \/ ppc' = "returned" /\ proxy_result'.tag = "Err"
                 \/ ppc' = "check" /\ proxy_result' = NoResult ]_vars
    /\ [][ (ppc = "check" /\ ppc' # ppc /\ online) => ppc' = "serving" ]_vars
    /\ (ppc \in {"check", "serving"} /\ ~online) ~> (ppc = "returned")

\* C31: a request handed to the HTTP client carries Authorization: Basic of
\* the configured credentials exactly when user and password are both given,
\* and no Authorization header otherwise; for the requests of send_request
\* and of the probe alike.
C31_AuthorizationIffCredentials ==
    wire # Absent =>
        IF node_user # Absent /\ node_password # Absent
          THEN Value(wire).authorization =
                   Some(BasicAuth(Value(node_user), Value(node_password)))
          ELSE Value(wire).authorization = Absent

====
